---- MODULE Spec2Model ----
(***************************************************************************)
(* Model of roles-logic-sv2 channel_logic/channel_factory.rs: the shared   *)
(* ChannelFactory state machine and the Pool / Proxy factories wrapping it *)
(***************************************************************************)
EXTENDS Integers, Sequences, FiniteSets, TLC

(* ------------------------------ bounds --------------------------------- *)
\* channel ids the GroupId allocator may hand out before the model stops opening
MaxChannels == 2
\* longest future_jobs queue the model builds
MaxFutureJobs == 2
\* custom jobs the model registers before it stops (the job_ids counter)
MaxCustomJobs == 2

(* ---------------------- configuration of a factory --------------------- *)
\* ExtendedExtranonce: lengths of range0 (upstream), range1 (channel), range2 (miner)
Range0Len == 1
Range2Len == 1
\* ExtendedExtranonce::get_len
ExtranonceLen == 3
\* the bytes of range0, fixed by the upstream
Range0Bytes == <<9>>
\* ProxyExtendedChannelFactory.extended_channel_id, given by the upstream
extended_channel_id == 7

(* ------------------------------ Option --------------------------------- *)
None == <<>>
Some(x) == <<x>>
IsSome(o) == Len(o) = 1
IsNone(o) == Len(o) = 0
Unwrap(o) == o[1]

(* --------------------- values drawn for the inputs --------------------- *)
Targets == 0..3
JobIds == {1, 2}
PrevHashes == {1, 2}
\* wall-clock seconds read by on_new_prev_hash
NowValues == {50}
RequestIds == {11}
\* hash rates of an open request; a negative one makes hash_rate_to_target fail
HashRates == {-1, 1}
\* targets an update_target_for_channel call may carry
UpdateTargets == {1}
\* upstream targets a proxy is built with or set_target carries
UpstreamTargets == {1, 2, 3}
Kinds == {"Pool", "Proxy", "ProxyJd"}

\* faulty variant: a factory of kind Proxy may be given a job creator
ProxyNewAcceptsCreator(k, creator) ==
    CASE k = "Proxy" -> "Ok"
      [] k = "ProxyJd" -> IF ~creator THEN "Panic" ELSE "Ok"
      [] k = "Pool" -> "Panic"

\* ProxyExtendedChannelFactory::new: the match on kind that precedes the
\* construction; creator is job_creator.is_some()
ProxyNew(k, creator) ==
    CASE k = "Proxy" -> IF creator THEN "Panic" ELSE "Ok"
      [] k = "ProxyJd" -> IF ~creator THEN "Panic" ELSE "Ok"
      [] k = "Pool" -> "Panic"

\* the wrapper owning the ChannelFactory, the kind it is built with and whether
\* it is given a job creator: the arguments with which construction returns
Configs ==
    {<<"PoolChannelFactory", k, TRUE>> : k \in Kinds} \cup
    {cfg \in {"ProxyExtendedChannelFactory"} \X Kinds \X BOOLEAN :
        ProxyNew(cfg[2], cfg[3]) = "Ok"}

(* ----------------- Target <-> U256 (little-endian digits) -------------- *)
\* From<Target> for U256 and From<U256> for Target
TargetToU256(t) == <<t % 2, t \div 2>>
U256ToTarget(u) == u[1] + 2 * u[2]

\* crate::utils::u256_to_block_hash: the parsed 32-byte block hash of a U256
u256_to_block_hash(u) == [block_hash |-> u]

\* crate::utils::hash_rate_to_target(hash_rate, share_per_min)
hash_rate_to_target(hr) ==
    IF hr < 0 THEN [res |-> "Err", err |-> "TargetError"]
    ELSE [res |-> "Ok", val |-> TargetToU256(IF hr = 0 THEN 3 ELSE 2 \div hr)]

(* ------------------------- NewExtendedMiningJob ------------------------ *)
MkJob(id, mn) ==
    [channel_id |-> 0, job_id |-> id, min_ntime |-> mn, version |-> 2,
     version_rolling_allowed |-> TRUE, merkle_path |-> <<id>>,
     coinbase_tx_prefix |-> <<20 + id>>, coinbase_tx_suffix |-> <<30 + id>>]
JobInputs == {MkJob(id, mn) : id \in JobIds, mn \in {None, Some(40)}}

is_future(job) == IsNone(job.min_ntime)
set_future(job) == [job EXCEPT !.min_ntime = None]
\* faulty variant: a promoted job is left marked future
set_no_future_leaves_future(job, t) == job
set_no_future(job, t) == [job EXCEPT !.min_ntime = Some(t)]

(* ------------------------------ StagedPhash ---------------------------- *)
StagedInputs ==
    {[job_id |-> j, prev_hash |-> p, min_ntime |-> 60, nbits |-> 70] :
        j \in JobIds, p \in PrevHashes}

\* StagedPhash::into_set_p_hash
into_set_p_hash(self, channel_id, new_job_id) ==
    [type |-> "SetNewPrevHash", channel_id |-> channel_id,
     job_id |-> IF IsSome(new_job_id) THEN Unwrap(new_job_id) ELSE self.job_id,
     prev_hash |-> self.prev_hash, min_ntime |-> self.min_ntime,
     nbits |-> self.nbits]

(* ------------------------------- state --------------------------------- *)
VARIABLES
    factory,             \* PoolChannelFactory or ProxyExtendedChannelFactory
    kind,                \* ExtendedChannelKind tag
    job_creator,         \* whether the wrapper owns a JobsCreators
    upstream_target,     \* ExtendedChannelKind::{Proxy,ProxyJd}.upstream_target
    ids,                 \* GroupId: last channel id handed out in group 0
    extranonces,         \* ExtendedExtranonce: last range1 value handed out
    extended_channels,   \* channel_id -> OpenExtendedMiningChannelSuccess
    channel_to_group_id, \* channel_id -> group id
    future_jobs,         \* Vec of NewExtendedMiningJob (oldest first)
    last_prev_hash,      \* Option<StagedPhash>
    last_prev_hash_,     \* Option<BlockHash>
    last_valid_job,      \* Option<NewExtendedMiningJob>
    negotiated_jobs,     \* channel_id -> SetCustomMiningJob (pool)
    job_ids,             \* Id: last job id handed out by job_ids.next()
    future_templates,    \* job_id -> NewTemplate (job declaration)
    op,                  \* the call that produced this state, with its arguments
    ret                  \* what that call returned

vars == <<factory, kind, job_creator, upstream_target, ids, extranonces, extended_channels,
          channel_to_group_id, future_jobs, last_prev_hash, last_prev_hash_,
          last_valid_job, negotiated_jobs, job_ids, future_templates, op, ret>>

jobVars == <<future_jobs, last_prev_hash, last_prev_hash_, last_valid_job>>
chanVars == <<ids, extranonces, extended_channels, channel_to_group_id>>
kindVars == <<factory, kind, job_creator, upstream_target>>
\* state behind the job-declaration handlers
poolVars == <<negotiated_jobs, job_ids, future_templates>>

EmptyMap == [c \in {} |-> 0]
MapInsert(m, k, v) == [x \in (DOMAIN m) \cup {k} |-> IF x = k THEN v ELSE m[x]]

\* PoolChannelFactory::new / ProxyExtendedChannelFactory::new
Init ==
    /\ \E cfg \in Configs :
          factory = cfg[1] /\ kind = cfg[2] /\ job_creator = cfg[3]
    /\ upstream_target = (IF kind = "Pool" THEN 0 ELSE 1)
    /\ ids = 0
    /\ extranonces = 0
    /\ extended_channels = EmptyMap
    /\ channel_to_group_id = EmptyMap
    /\ future_jobs = <<>>
    /\ last_prev_hash = None
    /\ last_prev_hash_ = None
    /\ last_valid_job = None
    /\ negotiated_jobs = EmptyMap
    /\ job_ids = 0
    /\ future_templates = EmptyMap
    /\ op = [name |-> "new"]
    /\ ret = [res |-> "Ok"]

(* ---------------------- ChannelFactory::on_new_prev_hash --------------- *)
\* faulty variant: an if-let in place of the while-let, only the newest job is looked at
DrainOnlyNewestJob(fj, lvj, job_id, now) ==
    IF fj = <<>> THEN lvj
    ELSE IF fj[Len(fj)].job_id = job_id
         THEN Some(set_no_future(fj[Len(fj)], now))
         ELSE None

\* the while-let loop: pops from the back and yields the new last_valid_job
RECURSIVE DrainFutureJobs(_, _, _, _)
DrainFutureJobs(fj, lvj, job_id, now) ==
    IF fj = <<>> THEN lvj
    ELSE LET job == fj[Len(fj)]
             rest == SubSeq(fj, 1, Len(fj) - 1)
         IN IF job.job_id = job_id
            THEN Some(set_no_future(job, now))
            ELSE DrainFutureJobs(rest, None, job_id, now)

\* faulty variant: the prev-hash is recorded only while none is held
on_new_prev_hash_keeps_first(m, now) ==
    /\ last_valid_job' = DrainFutureJobs(future_jobs, last_valid_job, m.job_id, now)
    /\ future_jobs' = <<>>
    /\ last_prev_hash_' = IF IsSome(last_prev_hash_) THEN last_prev_hash_
                          ELSE Some(u256_to_block_hash(m.prev_hash))
    /\ last_prev_hash' = IF IsSome(last_prev_hash) THEN last_prev_hash ELSE Some(m)
    /\ ret' = [res |-> "Ok"]
    /\ op' = [name |-> "on_new_prev_hash", m |-> m, now |-> now]
    /\ UNCHANGED <<chanVars, kindVars, poolVars>>

\* faulty variant: the parsed block hash is written only while none is held
on_new_prev_hash_stale_block_hash(m, now) ==
    /\ last_valid_job' = DrainFutureJobs(future_jobs, last_valid_job, m.job_id, now)
    /\ future_jobs' = <<>>
    /\ last_prev_hash_' = IF IsSome(last_prev_hash_) THEN last_prev_hash_
                          ELSE Some(u256_to_block_hash(m.prev_hash))
    /\ last_prev_hash' = Some(m)
    /\ ret' = [res |-> "Ok"]
    /\ op' = [name |-> "on_new_prev_hash", m |-> m, now |-> now]
    /\ UNCHANGED <<chanVars, kindVars, poolVars>>

on_new_prev_hash(m, now) ==
    /\ last_valid_job' = DrainFutureJobs(future_jobs, last_valid_job, m.job_id, now)
    /\ future_jobs' = <<>>
    /\ last_prev_hash_' = Some(u256_to_block_hash(m.prev_hash))
    /\ last_prev_hash' = Some(m)
    /\ ret' = [res |-> "Ok"]
    /\ op' = [name |-> "on_new_prev_hash", m |-> m, now |-> now]
    /\ UNCHANGED <<chanVars, kindVars, poolVars>>

(* ----------------- ChannelFactory::on_new_extended_mining_job ---------- *)
\* faulty variant: the clone is sent to every channel with its channel_id as received
prepare_jobs_without_channel_id(m) ==
    [id \in DOMAIN extended_channels |-> [type |-> "NewExtendedMiningJob", job |-> m]]

\* ChannelFactory::prepare_jobs_for_downstream_on_new_extended
prepare_jobs_for_downstream_on_new_extended(m) ==
    [id \in DOMAIN extended_channels |->
        [type |-> "NewExtendedMiningJob", job |-> [m EXCEPT !.channel_id = id]]]

\* faulty variant: a non-future job is taken as valid without looking at the prev-hash
JobDispatchIgnoresPrevHash(m) == IF is_future(m) THEN "future" ELSE "valid"

\* the arm of match (m.is_future(), &self.last_prev_hash) taken for m
JobDispatch(m) ==
    IF is_future(m) THEN "future"
    ELSE IF IsSome(last_prev_hash) THEN "valid"
    ELSE "error"

\* faulty variant: a future job is put at the head of the queue, and a valid
\* job clears the queue
on_new_extended_mining_job_reorders(m) ==
    /\ op' = [name |-> "on_new_extended_mining_job", m |-> m]
    /\ IF JobDispatch(m) = "future"
       THEN /\ Len(future_jobs) < MaxFutureJobs
            /\ future_jobs' = <<m>> \o future_jobs
            /\ ret' = [res |-> "Ok",
                       val |-> prepare_jobs_for_downstream_on_new_extended(m)]
            /\ UNCHANGED <<last_valid_job, last_prev_hash, last_prev_hash_>>
       ELSE IF JobDispatch(m) = "valid"
       THEN /\ last_valid_job' = Some(m)
            /\ ret' = [res |-> "Ok",
                       val |-> prepare_jobs_for_downstream_on_new_extended(m)]
            /\ future_jobs' = <<>>
            /\ UNCHANGED <<last_prev_hash, last_prev_hash_>>
       ELSE /\ ret' = [res |-> "Err", err |-> "JobIsNotFutureButPrevHashNotPresent"]
            /\ UNCHANGED jobVars
    /\ UNCHANGED <<chanVars, kindVars, poolVars>>

on_new_extended_mining_job(m) ==
    /\ op' = [name |-> "on_new_extended_mining_job", m |-> m]
    /\ IF JobDispatch(m) = "future"
       THEN /\ Len(future_jobs) < MaxFutureJobs
            /\ future_jobs' = Append(future_jobs, m)
            /\ ret' = [res |-> "Ok",
                       val |-> prepare_jobs_for_downstream_on_new_extended(m)]
            /\ UNCHANGED <<last_valid_job, last_prev_hash, last_prev_hash_>>
       ELSE IF JobDispatch(m) = "valid"
       THEN /\ last_valid_job' = Some(m)
            /\ ret' = [res |-> "Ok",
                       val |-> prepare_jobs_for_downstream_on_new_extended(m)]
            /\ UNCHANGED <<future_jobs, last_prev_hash, last_prev_hash_>>
       ELSE /\ ret' = [res |-> "Err", err |-> "JobIsNotFutureButPrevHashNotPresent"]
            /\ UNCHANGED jobVars
    /\ UNCHANGED <<chanVars, kindVars, poolVars>>

(* -------------------- ChannelFactory::new_extended_channel ------------- *)
MinExtranonceSizes == {Range2Len, Range2Len + 1}

\* GroupId::new_channel_id(group 0): the next id of the group
new_channel_id(last) == last + 1

\* ExtendedExtranonce::next_prefix_extended: range0 followed by the next range1
next_prefix_extended(last) == Range0Bytes \o <<last + 1>>

\* faulty variant: the buffered future jobs are replayed newest first
OpenBatchFuturesReversed(success, channel_id) ==
    LET first == <<[type |-> "OpenExtendedMiningChannelSuccess", msg |-> success]>>
        replay ==
            IF IsSome(last_valid_job)
            THEN LET job == set_future(Unwrap(last_valid_job))
                 IN <<[type |-> "NewExtendedMiningJob", job |-> job]>> \o
                    (IF IsSome(last_prev_hash)
                     THEN <<[into_set_p_hash(Unwrap(last_prev_hash), channel_id, None)
                               EXCEPT !.job_id = job.job_id]>>
                     ELSE <<>>)
            ELSE IF IsSome(last_prev_hash)
            THEN <<into_set_p_hash(Unwrap(last_prev_hash), channel_id, None)>>
            ELSE <<>>
        futures == [i \in 1..Len(future_jobs) |->
                       [type |-> "NewExtendedMiningJob",
                        job |-> future_jobs[Len(future_jobs) + 1 - i]]]
    IN first \o replay \o futures

\* faulty variant: the else-if arm is lost, a prev-hash is sent only next to a valid job
OpenBatchPrevHashOnlyWithJob(success, channel_id) ==
    LET first == <<[type |-> "OpenExtendedMiningChannelSuccess", msg |-> success]>>
        replay ==
            IF IsSome(last_valid_job)
            THEN LET job == set_future(Unwrap(last_valid_job))
                 IN <<[type |-> "NewExtendedMiningJob", job |-> job]>> \o
                    (IF IsSome(last_prev_hash)
                     THEN <<[into_set_p_hash(Unwrap(last_prev_hash), channel_id, None)
                               EXCEPT !.job_id = job.job_id]>>
                     ELSE <<>>)
            ELSE <<>>
        futures == [i \in 1..Len(future_jobs) |->
                       [type |-> "NewExtendedMiningJob", job |-> future_jobs[i]]]
    IN first \o replay \o futures

\* faulty variant: the SetNewPrevHash next to the replayed job keeps the job_id
\* of the stored prev-hash
OpenBatchPrevHashKeepsJobId(success, channel_id) ==
    LET first == <<[type |-> "OpenExtendedMiningChannelSuccess", msg |-> success]>>
        replay ==
            IF IsSome(last_valid_job)
            THEN LET job == set_future(Unwrap(last_valid_job))
                 IN <<[type |-> "NewExtendedMiningJob", job |-> job]>> \o
                    (IF IsSome(last_prev_hash)
                     THEN <<into_set_p_hash(Unwrap(last_prev_hash), channel_id, None)>>
                     ELSE <<>>)
            ELSE IF IsSome(last_prev_hash)
            THEN <<into_set_p_hash(Unwrap(last_prev_hash), channel_id, None)>>
            ELSE <<>>
        futures == [i \in 1..Len(future_jobs) |->
                       [type |-> "NewExtendedMiningJob", job |-> future_jobs[i]]]
    IN first \o replay \o futures

\* the messages pushed after the channel is recorded (result vector)
OpenBatch(success, channel_id) ==
    LET first == <<[type |-> "OpenExtendedMiningChannelSuccess", msg |-> success]>>
        replay ==
            IF IsSome(last_valid_job)
            THEN LET job == set_future(Unwrap(last_valid_job))
                     j_id == job.job_id
                 IN <<[type |-> "NewExtendedMiningJob", job |-> job]>> \o
                    (IF IsSome(last_prev_hash)
                     THEN <<[into_set_p_hash(Unwrap(last_prev_hash), channel_id, None)
                               EXCEPT !.job_id = j_id]>>
                     ELSE <<>>)
            ELSE IF IsSome(last_prev_hash)
            THEN <<into_set_p_hash(Unwrap(last_prev_hash), channel_id, None)>>
            ELSE <<>>
        futures == [i \in 1..Len(future_jobs) |->
                       [type |-> "NewExtendedMiningJob", job |-> future_jobs[i]]]
    IN first \o replay \o futures

\* faulty variant: the request is compared with the whole extranonce length
ExtranonceSizeWithinFullLen(min_extranonce_size) ==
    min_extranonce_size <= ExtranonceLen

\* min_extranonce_size <= max_extranonce_size, the range2 length
ExtranonceSizeSupported(min_extranonce_size) == min_extranonce_size <= Range2Len

new_extended_channel(request_id, hash_rate, min_extranonce_size) ==
    /\ op' = [name |-> "new_extended_channel", request_id |-> request_id,
              hash_rate |-> hash_rate, min_extranonce_size |-> min_extranonce_size]
    /\ IF ExtranonceSizeSupported(min_extranonce_size)
       THEN /\ ids < MaxChannels
            /\ LET channel_id == new_channel_id(ids)
                   target == hash_rate_to_target(hash_rate)
               IN /\ ids' = channel_id
                  /\ channel_to_group_id' = MapInsert(channel_to_group_id, channel_id, 0)
                  /\ IF target.res = "Err"
                     THEN /\ ret' = [res |-> "Err", err |-> target.err]
                          /\ UNCHANGED <<extranonces, extended_channels>>
                     ELSE LET success ==
                                [request_id |-> request_id,
                                 channel_id |-> channel_id,
                                 target |-> target.val,
                                 extranonce_size |-> Range2Len,
                                 extranonce_prefix |-> next_prefix_extended(extranonces)]
                          IN /\ extranonces' = extranonces + 1
                             /\ extended_channels' =
                                    MapInsert(extended_channels, channel_id, success)
                             /\ ret' = [res |-> "Ok",
                                        val |-> OpenBatch(success, channel_id)]
       ELSE /\ ret' = [res |-> "Ok",
                       val |-> <<[type |-> "OpenMiningChannelError",
                                  request_id |-> request_id,
                                  error_code |-> "unsupported-min-extranonce-size"]>>]
            /\ UNCHANGED chanVars
    /\ UNCHANGED <<jobVars, kindVars, poolVars>>

(* ------- ChannelFactory::replicate_upstream_extended_channel_only_jd ---- *)
ReplicatedPrefix == Range0Bytes \o <<5>>
\* channel ids the caller of replicate_upstream_extended_channel_only_jd chooses
ReplicatedIds == {1}

\* faulty variant: the replicated channel is not entered into channel_to_group_id
replicate_without_group_id(target, extranonce, channel_id, extranonce_size) ==
    /\ extended_channels' =
          MapInsert(extended_channels, channel_id,
                    [request_id |-> 0, channel_id |-> channel_id, target |-> target,
                     extranonce_size |-> extranonce_size,
                     extranonce_prefix |-> extranonce])
    /\ ret' = [res |-> "Some"]
    /\ op' = [name |-> "replicate_upstream_extended_channel_only_jd",
              channel_id |-> channel_id]
    /\ factory = "PoolChannelFactory"
    /\ UNCHANGED <<ids, extranonces, channel_to_group_id, jobVars, kindVars, poolVars>>

replicate_upstream_extended_channel_only_jd(target, extranonce, channel_id, extranonce_size) ==
    /\ channel_to_group_id' = MapInsert(channel_to_group_id, channel_id, 0)
    /\ extended_channels' =
          MapInsert(extended_channels, channel_id,
                    [request_id |-> 0, channel_id |-> channel_id, target |-> target,
                     extranonce_size |-> extranonce_size,
                     extranonce_prefix |-> extranonce])
    /\ ret' = [res |-> "Some"]
    /\ op' = [name |-> "replicate_upstream_extended_channel_only_jd",
              channel_id |-> channel_id]
    /\ factory = "PoolChannelFactory"
    /\ UNCHANGED <<ids, extranonces, jobVars, kindVars, poolVars>>

(* ------------------ ChannelFactory::update_target_for_channel ---------- *)
\* faulty variant: the new target is written to every channel
WithTargetOnEveryChannel(channels, channel_id, new_target) ==
    [c \in DOMAIN channels |->
        [channels[c] EXCEPT !.target = TargetToU256(new_target)]]

\* channel.target = new_target.into(), on the channel found by get_mut
WithTarget(channels, channel_id, new_target) ==
    [channels EXCEPT ![channel_id].target = TargetToU256(new_target)]

update_target_for_channel(channel_id, new_target) ==
    /\ op' = [name |-> "update_target_for_channel", channel_id |-> channel_id,
              new_target |-> new_target]
    /\ IF channel_id \in DOMAIN extended_channels
       THEN /\ extended_channels' =
                  WithTarget(extended_channels, channel_id, new_target)
            /\ ret' = [res |-> "Some", val |-> TRUE]
       ELSE /\ ret' = [res |-> "None"]
            /\ UNCHANGED extended_channels
    /\ UNCHANGED <<ids, extranonces, channel_to_group_id, jobVars, kindVars, poolVars>>

(* ----------------------- ExtendedChannelKind::set_target --------------- *)
\* std::mem::swap: the caller's value receives the old upstream target
set_target(new_target) ==
    /\ op' = [name |-> "set_target", new_target |-> new_target]
    /\ IF kind \in {"Proxy", "ProxyJd"}
       THEN /\ upstream_target' = new_target
            /\ ret' = [res |-> "Ok", new_target |-> upstream_target]
       ELSE /\ ret' = [res |-> "Ok", new_target |-> new_target]
            /\ UNCHANGED upstream_target
    /\ UNCHANGED <<factory, kind, job_creator, chanVars, jobVars, poolVars>>

ChannelIdInputs == 1..(MaxChannels + 1)

(* ------------------------------- shares -------------------------------- *)
\* Share::Extended(SubmitSharesExtended)
ExtendedShare(c, j, n) ==
    [variant |-> "Extended", channel_id |-> c, sequence_number |-> 5, job_id |-> j,
     nonce |-> n, ntime |-> 61, version |-> 2, extranonce |-> <<8>>]
\* SubmitSharesStandard, before it is wrapped with its group id
StandardShare(c, j, n) ==
    [channel_id |-> c, sequence_number |-> 6, job_id |-> j, nonce |-> n,
     ntime |-> 61, version |-> 2]
Nonces == 0..3
ExtendedShareInputs ==
    {ExtendedShare(c, 1, n) : c \in ChannelIdInputs, n \in Nonces} \cup
    {ExtendedShare(c, 2, 0) : c \in ChannelIdInputs}
StandardShareInputs == {StandardShare(c, 1, 0) : c \in ChannelIdInputs}
\* what the JobsCreators answers to last_target and get_template_id_from_job
CreatorAnswers ==
    {[target |-> 0, template_id |-> Some(100)],
     [target |-> 2, template_id |-> Some(100)],
     [target |-> 2, template_id |-> None]}

RECURSIVE SumSeq(_)
SumSeq(q) == IF q = <<>> THEN 0 ELSE q[1] + SumSeq(Tail(q))

\* crate::utils::merkle_root_from_path: None when the coinbase cannot be parsed
merkle_root_from_path(coinbase_tx_prefix, coinbase_tx_suffix, extranonce, path) ==
    IF coinbase_tx_prefix = <<>> THEN None
    ELSE Some(SumSeq(coinbase_tx_prefix \o extranonce \o coinbase_tx_suffix)
              + SumSeq(path))

\* Header::block_hash (double SHA-256 of the 80-byte header), as U256 digits
block_hash(header) ==
    TargetToU256((header.version + header.prev_blockhash.block_hash
                  + header.merkle_root + header.time + header.bits
                  + header.nonce) % 4)

\* the header check_target assembles for a share and the hash it compares
ShareHash(m, full_extranonce, merkle_path, coinbase_tx_prefix, coinbase_tx_suffix, prev_blockhash, bits) ==
    LET merkle_root == merkle_root_from_path(coinbase_tx_prefix,
                           coinbase_tx_suffix, full_extranonce, merkle_path)
    IN IF IsNone(merkle_root) THEN None
       ELSE Some(U256ToTarget(block_hash(
                [version |-> m.version, prev_blockhash |-> prev_blockhash,
                 merkle_root |-> Unwrap(merkle_root), time |-> m.ntime,
                 bits |-> bits, nonce |-> m.nonce])))

\* ChannelFactory::get_channel_specific_mining_info
get_channel_specific_mining_info(m) ==
    IF m.variant = "Extended"
    THEN IF m.channel_id \in DOMAIN extended_channels
         THEN LET channel == extended_channels[m.channel_id]
              IN [res |-> "Some", target |-> U256ToTarget(channel.target),
                  extranonce |-> channel.extranonce_prefix \o m.extranonce]
         ELSE [res |-> "None"]
    ELSE [res |-> "Panic", at |-> "unimplemented"]

\* faulty variant: the converted share keeps the downstream channel id
into_extended_keeps_channel_id(self, extranonce, up_id) ==
    CASE self.arm \in {"SendErrorDownstream", "RelaySubmitShareUpstream"} ->
            [res |-> "Ok", val |-> self]
      [] self.arm \in {"SendSubmitShareUpstream", "ShareMeetBitcoinTarget"} ->
            IF self.share.variant = "Extended"
            THEN [res |-> "Ok", val |-> self]
            ELSE [res |-> "Ok",
                  val |-> [self EXCEPT !.share =
                              [variant |-> "Extended",
                               channel_id |-> self.share.channel_id,
                               sequence_number |-> self.share.sequence_number,
                               job_id |-> self.share.job_id,
                               nonce |-> self.share.nonce,
                               ntime |-> self.share.ntime,
                               version |-> self.share.version,
                               extranonce |-> extranonce]]]
      [] self.arm = "ShareMeetDownstreamTarget" -> [res |-> "Panic", at |-> "todo"]

\* faulty variant: a block-finding result is left with the stripped extranonce
into_extended_strips_block(self, extranonce, up_id) ==
    CASE self.arm = "ShareMeetBitcoinTarget" ->
            [res |-> "Ok", val |-> [self EXCEPT !.extranonce = extranonce]]
      [] self.arm = "ShareMeetDownstreamTarget" -> [res |-> "Panic", at |-> "todo"]
      [] OTHER -> [res |-> "Ok", val |-> self]

\* OnNewShare::into_extended
into_extended(self, extranonce, up_id) ==
    CASE self.arm = "SendErrorDownstream" -> [res |-> "Ok", val |-> self]
      [] self.arm = "RelaySubmitShareUpstream" -> [res |-> "Ok", val |-> self]
      [] self.arm \in {"SendSubmitShareUpstream", "ShareMeetBitcoinTarget"} ->
            IF self.share.variant = "Extended"
            THEN [res |-> "Ok", val |-> self]
            ELSE [res |-> "Ok",
                  val |-> [self EXCEPT !.share =
                              [variant |-> "Extended", channel_id |-> up_id,
                               sequence_number |-> self.share.sequence_number,
                               job_id |-> self.share.job_id,
                               nonce |-> self.share.nonce,
                               ntime |-> self.share.ntime,
                               version |-> self.share.version,
                               extranonce |-> extranonce]]]
      [] self.arm = "ShareMeetDownstreamTarget" -> [res |-> "Panic", at |-> "todo"]

\* faulty variant: the upstream target is tested before the bitcoin target
ClassifyUpstreamFirst(hash, bitcoin_target, upstream_tgt, downstream_target) ==
    IF hash <= upstream_tgt THEN "SendSubmitShareUpstream"
    ELSE IF hash <= bitcoin_target THEN "ShareMeetBitcoinTarget"
    ELSE IF hash <= downstream_target THEN "ShareMeetDownstreamTarget"
    ELSE "SendErrorDownstream"

\* faulty variant: the downstream target is tested before the upstream target
ClassifyDownstreamBeforeUpstream(hash, bitcoin_target, upstream_tgt, downstream_target) ==
    IF hash <= bitcoin_target THEN "ShareMeetBitcoinTarget"
    ELSE IF hash <= downstream_target THEN "ShareMeetDownstreamTarget"
    ELSE IF hash <= upstream_tgt THEN "SendSubmitShareUpstream"
    ELSE "SendErrorDownstream"

\* the if / else-if chain of check_target over the three targets
Classify(hash, bitcoin_target, upstream_tgt, downstream_target) ==
    IF hash <= bitcoin_target THEN "ShareMeetBitcoinTarget"
    ELSE IF hash <= upstream_tgt THEN "SendSubmitShareUpstream"
    ELSE IF hash <= downstream_target THEN "ShareMeetDownstreamTarget"
    ELSE "SendErrorDownstream"

\* faulty variant: the Pool arm yields a target above zero
KindUpstreamTargetPoolNonZero == IF kind = "Pool" THEN 1 ELSE upstream_target

\* the upstream target check_target reads from self.kind
KindUpstreamTarget == IF kind = "Pool" THEN 0 ELSE upstream_target

DropFirst(q, n) == SubSeq(q, n + 1, Len(q))

\* faulty variant: a share that meets the downstream target only is converted too
check_target_converts_downstream(m, bitcoin_target, template_id, up_id, merkle_path, coinbase_tx_prefix, coinbase_tx_suffix, prev_blockhash, bits) ==
    LET info == get_channel_specific_mining_info(m)
    IN IF info.res = "Panic" THEN info
       ELSE IF info.res = "None"
       THEN [res |-> "Err", err |-> "ShareDoNotMatchAnyChannel"]
       ELSE
       LET extranonce == info.extranonce
           extranonce_2 == DropFirst(extranonce, Range0Len)
           m2 == IF m.variant = "Extended"
                 THEN [m EXCEPT !.extranonce = extranonce_2] ELSE m
           hash_ == ShareHash(m2, extranonce, merkle_path, coinbase_tx_prefix,
                              coinbase_tx_suffix, prev_blockhash, bits)
       IN IF IsNone(hash_) THEN [res |-> "Err", err |-> "InvalidCoinbase"]
          ELSE
          LET hash == Unwrap(hash_)
              arm == Classify(hash, bitcoin_target, KindUpstreamTarget, info.target)
              coinbase == coinbase_tx_prefix \o extranonce \o coinbase_tx_suffix
          IN CASE arm = "ShareMeetBitcoinTarget" ->
                    LET res == [arm |-> arm, share |-> m2,
                                template_id |-> template_id,
                                coinbase |-> coinbase, extranonce |-> extranonce]
                    IN IF kind = "Pool" THEN [res |-> "Ok", val |-> res]
                       ELSE into_extended(res, DropFirst(extranonce, Range0Len), up_id)
               [] arm = "SendSubmitShareUpstream" ->
                    LET res == [arm |-> arm, share |-> m2,
                                template_id |-> template_id]
                    IN IF kind = "Pool" THEN [res |-> "Ok", val |-> res]
                       ELSE into_extended(res, DropFirst(extranonce, Range0Len), up_id)
               [] arm = "ShareMeetDownstreamTarget" ->
                    IF kind = "Pool" THEN [res |-> "Ok", val |-> [arm |-> arm]]
                    ELSE into_extended([arm |-> arm],
                                       DropFirst(extranonce, Range0Len), up_id)
               [] arm = "SendErrorDownstream" ->
                    [res |-> "Ok",
                     val |-> [arm |-> arm,
                              error |-> [channel_id |-> m2.channel_id,
                                         sequence_number |-> m2.sequence_number,
                                         error_code |-> "difficulty-too-low"]]]

\* ChannelFactory::check_target
check_target(m, bitcoin_target, template_id, up_id, merkle_path, coinbase_tx_prefix, coinbase_tx_suffix, prev_blockhash, bits) ==
    LET info == get_channel_specific_mining_info(m)
    IN IF info.res = "Panic" THEN info
       ELSE IF info.res = "None"
       THEN [res |-> "Err", err |-> "ShareDoNotMatchAnyChannel"]
       ELSE
       LET extranonce == info.extranonce
           extranonce_2 == DropFirst(extranonce, Range0Len)
           m2 == IF m.variant = "Extended"
                 THEN [m EXCEPT !.extranonce = extranonce_2] ELSE m
           hash_ == ShareHash(m2, extranonce, merkle_path, coinbase_tx_prefix,
                              coinbase_tx_suffix, prev_blockhash, bits)
       IN IF IsNone(hash_) THEN [res |-> "Err", err |-> "InvalidCoinbase"]
          ELSE
          LET hash == Unwrap(hash_)
              arm == Classify(hash, bitcoin_target, KindUpstreamTarget, info.target)
              coinbase == coinbase_tx_prefix \o extranonce \o coinbase_tx_suffix
          IN CASE arm = "ShareMeetBitcoinTarget" ->
                    LET res == [arm |-> arm, share |-> m2,
                                template_id |-> template_id,
                                coinbase |-> coinbase, extranonce |-> extranonce]
                    IN IF kind = "Pool" THEN [res |-> "Ok", val |-> res]
                       ELSE into_extended(res, DropFirst(extranonce, Range0Len), up_id)
               [] arm = "SendSubmitShareUpstream" ->
                    LET res == [arm |-> arm, share |-> m2,
                                template_id |-> template_id]
                    IN IF kind = "Pool" THEN [res |-> "Ok", val |-> res]
                       ELSE into_extended(res, DropFirst(extranonce, Range0Len), up_id)
               [] arm = "ShareMeetDownstreamTarget" ->
                    [res |-> "Ok", val |-> [arm |-> arm]]
               [] arm = "SendErrorDownstream" ->
                    [res |-> "Ok",
                     val |-> [arm |-> arm,
                              error |-> [channel_id |-> m2.channel_id,
                                         sequence_number |-> m2.sequence_number,
                                         error_code |-> "difficulty-too-low"]]]

(* --------------- PoolChannelFactory::on_new_set_custom_mining_job ------- *)
CustomJobInputs ==
    {[channel_id |-> 1, request_id |-> 21, version |-> 2, prev_hash |-> 3,
      min_ntime |-> 62, nbits |-> 71, coinbase_tx_version |-> 1,
      coinbase_prefix |-> <<41>>, coinbase_tx_input_n_sequence |-> 1,
      coinbase_tx_outputs |-> <<42>>, coinbase_tx_locktime |-> 1,
      merkle_path |-> <<43>>]}

\* job_creator::extended_job_from_custom_job: the coinbase halves of a custom job
extended_job_from_custom_job(cj, extranonce_len) ==
    [coinbase_tx_prefix |->
        <<cj.coinbase_tx_version>> \o cj.coinbase_prefix \o <<extranonce_len>>,
     coinbase_tx_suffix |->
        <<cj.coinbase_tx_input_n_sequence>> \o cj.coinbase_tx_outputs
            \o <<cj.coinbase_tx_locktime>>]

\* PoolChannelFactory::check_set_custom_mining_job
check_set_custom_mining_job(set_custom_mining_job) == TRUE

\* faulty variant: a channel's first custom job is kept when another arrives
on_new_set_custom_mining_job_keeps_first(set_custom_mining_job) ==
    /\ factory = "PoolChannelFactory"
    /\ job_ids < MaxCustomJobs
    /\ op' = [name |-> "on_new_set_custom_mining_job", m |-> set_custom_mining_job]
    /\ negotiated_jobs' =
          IF set_custom_mining_job.channel_id \in DOMAIN negotiated_jobs
          THEN negotiated_jobs
          ELSE MapInsert(negotiated_jobs, set_custom_mining_job.channel_id,
                         set_custom_mining_job)
    /\ job_ids' = job_ids + 1
    /\ ret' = [res |-> "Ok",
               val |-> [type |-> "SetCustomMiningJobSuccess",
                        channel_id |-> set_custom_mining_job.channel_id,
                        request_id |-> set_custom_mining_job.request_id,
                        job_id |-> job_ids + 1]]
    /\ UNCHANGED <<chanVars, jobVars, kindVars, future_templates>>

on_new_set_custom_mining_job(set_custom_mining_job) ==
    /\ factory = "PoolChannelFactory"
    /\ job_ids < MaxCustomJobs
    /\ op' = [name |-> "on_new_set_custom_mining_job", m |-> set_custom_mining_job]
    /\ IF check_set_custom_mining_job(set_custom_mining_job)
       THEN /\ negotiated_jobs' =
                  MapInsert(negotiated_jobs, set_custom_mining_job.channel_id,
                            set_custom_mining_job)
            /\ job_ids' = job_ids + 1
            /\ UNCHANGED future_templates
            /\ ret' = [res |-> "Ok",
                       val |-> [type |-> "SetCustomMiningJobSuccess",
                                channel_id |-> set_custom_mining_job.channel_id,
                                request_id |-> set_custom_mining_job.request_id,
                                job_id |-> job_ids + 1]]
       ELSE /\ ret' = [res |-> "Panic", at |-> "todo"]
            /\ UNCHANGED poolVars
    /\ UNCHANGED <<chanVars, jobVars, kindVars>>

(* ------------------------- share submission ---------------------------- *)
SubmitSharesErrorOf(m, code) ==
    [res |-> "Ok",
     val |-> [arm |-> "SendErrorDownstream",
              error |-> [channel_id |-> m.channel_id,
                         sequence_number |-> m.sequence_number,
                         error_code |-> code]]]

ErrOf(e) == [res |-> "Err", err |-> e]

\* job_creator is present: always in a pool, in a proxy when it was given one
HasJobCreator == job_creator

\* Share::Standard((share, group_id))
ShareStandard(m, group_id) ==
    [variant |-> "Standard", channel_id |-> m.channel_id,
     sequence_number |-> m.sequence_number, job_id |-> m.job_id,
     nonce |-> m.nonce, ntime |-> m.ntime, version |-> m.version,
     group_id |-> group_id]

\* the lookups shared by the handlers once a valid job is required:
\* last_valid_job, template id, last_prev_hash_, last_prev_hash.nbits, check_target
ValidateAgainstValidJob(share, bitcoin_target, template_id, with_template, up_id) ==
    IF IsNone(last_valid_job) THEN ErrOf("ShareDoNotMatchAnyJob")
    ELSE IF with_template /\ IsNone(template_id) THEN ErrOf("NoTemplateForId")
    ELSE IF IsNone(last_prev_hash_) THEN ErrOf("ShareDoNotMatchAnyJob")
    ELSE IF IsNone(last_prev_hash) THEN ErrOf("ShareDoNotMatchAnyJob")
    ELSE LET referenced_job == Unwrap(last_valid_job)
         IN check_target(share, bitcoin_target,
                         IF with_template THEN template_id ELSE None, up_id,
                         referenced_job.merkle_path,
                         referenced_job.coinbase_tx_prefix,
                         referenced_job.coinbase_tx_suffix,
                         Unwrap(last_prev_hash_), Unwrap(last_prev_hash).nbits)

\* PoolChannelFactory::on_submit_shares_standard
PoolSubmitStandardResult(m, target, template_id) ==
    IF m.channel_id \in DOMAIN channel_to_group_id
    THEN ValidateAgainstValidJob(
             ShareStandard(m, channel_to_group_id[m.channel_id]),
             target, template_id, TRUE, 0)
    ELSE SubmitSharesErrorOf(m, "invalid-channel-id")

\* faulty variant: the pool refuses a share that names another job than the valid one
PoolSubmitExtendedComparesJobId(m, target, template_id) ==
    IF IsSome(last_valid_job) /\ Unwrap(last_valid_job).job_id # m.job_id
    THEN SubmitSharesErrorOf(m, "invalid-job-id")
    ELSE ValidateAgainstValidJob(m, target, template_id, TRUE, 0)

\* faulty variant: the negotiated job of the channel is not looked up
PoolSubmitExtendedIgnoresNegotiatedJob(m, target, template_id) ==
    ValidateAgainstValidJob(m, target, template_id, TRUE, 0)

\* PoolChannelFactory::on_submit_shares_extended
PoolSubmitExtendedResult(m, target, template_id) ==
    IF m.channel_id \in DOMAIN negotiated_jobs
    THEN LET referenced_job == negotiated_jobs[m.channel_id]
             extended_job == extended_job_from_custom_job(referenced_job, ExtranonceLen)
         IN check_target(m, target, None, 0, referenced_job.merkle_path,
                         extended_job.coinbase_tx_prefix,
                         extended_job.coinbase_tx_suffix,
                         u256_to_block_hash(referenced_job.prev_hash),
                         referenced_job.nbits)
    ELSE ValidateAgainstValidJob(m, target, template_id, TRUE, 0)

\* faulty variant: the share's job id is not compared with the valid job's
ProxySubmitExtendedIgnoresJobId(m, target, template_id) ==
    IF IsNone(last_valid_job) THEN ErrOf("ShareDoNotMatchAnyJob")
    ELSE IF HasJobCreator
    THEN ValidateAgainstValidJob(m, target, template_id, TRUE, extended_channel_id)
    ELSE ValidateAgainstValidJob(m, 0, None, FALSE, extended_channel_id)

\* ProxyExtendedChannelFactory::on_submit_shares_extended
ProxySubmitExtendedResult(m, target, template_id) ==
    IF IsNone(last_valid_job) THEN ErrOf("ShareDoNotMatchAnyJob")
    ELSE IF Unwrap(last_valid_job).job_id # m.job_id
    THEN SubmitSharesErrorOf(m, "invalid-job-id")
    ELSE IF HasJobCreator
    THEN ValidateAgainstValidJob(m, target, template_id, TRUE, extended_channel_id)
    ELSE ValidateAgainstValidJob(m, 0, None, FALSE, extended_channel_id)

\* ProxyExtendedChannelFactory::on_submit_shares_standard
ProxySubmitStandardResult(m, target, template_id) ==
    IF IsNone(last_valid_job) THEN ErrOf("ShareDoNotMatchAnyJob")
    ELSE IF m.channel_id \in DOMAIN channel_to_group_id
    THEN LET share == ShareStandard(m, channel_to_group_id[m.channel_id])
         IN IF HasJobCreator
            THEN ValidateAgainstValidJob(share, target, template_id, TRUE,
                                         extended_channel_id)
            ELSE ValidateAgainstValidJob(share, 0, None, FALSE, extended_channel_id)
    ELSE SubmitSharesErrorOf(m, "invalid-channel-id")

\* the job creator's answers are drawn only where the factory owns a creator
CreatorInputs == IF HasJobCreator THEN CreatorAnswers
                 ELSE {[target |-> 0, template_id |-> None]}

\* faulty variant: a share whose job is unknown drops the factory's valid job
\* and the stored templates
on_submit_shares_extended_drops_job(m, target, template_id) ==
    /\ op' = [name |-> "on_submit_shares_extended", m |-> m, target |-> target,
              template_id |-> template_id]
    /\ ret' = IF factory = "PoolChannelFactory"
              THEN PoolSubmitExtendedResult(m, target, template_id)
              ELSE ProxySubmitExtendedResult(m, target, template_id)
    /\ last_valid_job' = IF ret'.res = "Err" THEN None ELSE last_valid_job
    /\ future_templates' = IF ret'.res = "Err" THEN EmptyMap ELSE future_templates
    /\ UNCHANGED <<chanVars, future_jobs, last_prev_hash, last_prev_hash_, kindVars,
                   negotiated_jobs, job_ids>>

on_submit_shares_extended(m, target, template_id) ==
    /\ op' = [name |-> "on_submit_shares_extended", m |-> m, target |-> target,
              template_id |-> template_id]
    /\ ret' = IF factory = "PoolChannelFactory"
              THEN PoolSubmitExtendedResult(m, target, template_id)
              ELSE ProxySubmitExtendedResult(m, target, template_id)
    /\ UNCHANGED <<chanVars, jobVars, kindVars, poolVars>>

on_submit_shares_standard(m, target, template_id) ==
    /\ op' = [name |-> "on_submit_shares_standard", m |-> m, target |-> target,
              template_id |-> template_id]
    /\ ret' = IF factory = "PoolChannelFactory"
              THEN PoolSubmitStandardResult(m, target, template_id)
              ELSE ProxySubmitStandardResult(m, target, template_id)
    /\ UNCHANGED <<chanVars, jobVars, kindVars, poolVars>>

(* ------------- on_new_template and on_new_prev_hash_from_tp ------------ *)
\* NewTemplate (template_distribution_sv2) as the handlers read it
MkTemplate(id, future) ==
    [template_id |-> id, future_template |-> future, version |-> 2,
     coinbase_tx_version |-> 1, coinbase_prefix |-> <<44>>,
     coinbase_tx_input_sequence |-> 1, coinbase_tx_value_remaining |-> 5,
     coinbase_tx_outputs |-> <<45>>, coinbase_tx_locktime |-> 1,
     merkle_path |-> <<id>>]
TemplateInputs ==
    {MkTemplate(100, f) : f \in BOOLEAN} \cup {MkTemplate(101, TRUE)}

\* SetNewPrevHashFromTp (template_distribution_sv2)
PrevHashFromTpInputs ==
    {[template_id |-> 100, prev_hash |-> p, header_timestamp |-> 63, n_bits |-> 72] :
        p \in PrevHashes}

\* JobsCreators::on_new_template: the extended job synthesized for a template,
\* under the job id the creator assigns; future exactly when the template is
JobFromTemplate(m, job_id) ==
    [channel_id |-> 0, job_id |-> job_id,
     min_ntime |-> IF m.future_template THEN None ELSE Some(0),
     version |-> m.version, version_rolling_allowed |-> TRUE,
     merkle_path |-> m.merkle_path,
     coinbase_tx_prefix |-> <<m.coinbase_tx_version>> \o m.coinbase_prefix,
     coinbase_tx_suffix |-> <<m.coinbase_tx_input_sequence>> \o m.coinbase_tx_outputs
                               \o <<m.coinbase_tx_locktime>>]

FirstTemplateId == 100
\* what JobsCreators::on_new_template answers: an error, or a job under the id
\* the creator gives the jobs of that template
NewTemplateAnswers(m) == {None, Some(m.template_id - FirstTemplateId + 1)}
\* what JobsCreators::on_new_prev_hash answers: the job id of the template, if known
NewPrevHashAnswers == {None} \cup {Some(j) : j \in JobIds}

\* ProxyExtendedChannelFactory::pool_coinbase_outputs is Some: a ProxyJd is
\* given the pool outputs before templates arrive
PoolOutputsSet == factory = "ProxyExtendedChannelFactory" /\ kind = "ProxyJd"

\* the PartialSetCustomMiningJob both proxy handlers build from a template
PartialSetCustomMiningJobOf(template, prev_hash, min_ntime, nbits) ==
    [version |-> template.version, prev_hash |-> prev_hash,
     min_ntime |-> min_ntime, nbits |-> nbits,
     coinbase_tx_version |-> template.coinbase_tx_version,
     coinbase_prefix |-> template.coinbase_prefix,
     coinbase_tx_input_n_sequence |-> template.coinbase_tx_input_sequence,
     coinbase_tx_value_remaining |-> template.coinbase_tx_value_remaining,
     coinbase_tx_outputs |-> template.coinbase_tx_outputs,
     coinbase_tx_locktime |-> template.coinbase_tx_locktime,
     merkle_path |-> template.merkle_path,
     future_job |-> template.future_template]

\* self.inner.on_new_extended_mining_job(new_job), as called by on_new_template:
\* what it returns
InnerNewJobResult(new_job) ==
    IF JobDispatch(new_job) = "error"
    THEN [res |-> "Err", err |-> "JobIsNotFutureButPrevHashNotPresent"]
    ELSE [res |-> "Ok", val |-> prepare_jobs_for_downstream_on_new_extended(new_job)]

\* self.inner.on_new_extended_mining_job(new_job): what it does to the job state
InnerNewJobEffect(new_job) ==
    IF JobDispatch(new_job) = "future"
    THEN /\ Len(future_jobs) < MaxFutureJobs
         /\ future_jobs' = Append(future_jobs, new_job)
         /\ UNCHANGED <<last_valid_job, last_prev_hash, last_prev_hash_>>
    ELSE IF JobDispatch(new_job) = "valid"
    THEN /\ last_valid_job' = Some(new_job)
         /\ UNCHANGED <<future_jobs, last_prev_hash, last_prev_hash_>>
    ELSE UNCHANGED jobVars

\* faulty variant: a custom job is built for a future job as well
on_new_template_ignores_future(m, answer) ==
    /\ op' = [name |-> "on_new_template", m |-> m, answer |-> answer]
    /\ IF factory = "ProxyExtendedChannelFactory" /\ ~(HasJobCreator /\ PoolOutputsSet)
       THEN /\ ret' = [res |-> "Panic", at |-> "no job creator or pool outputs"]
            /\ UNCHANGED <<jobVars, future_templates>>
       ELSE IF IsNone(answer)
       THEN /\ ret' = ErrOf("JobsCreatorsError")
            /\ UNCHANGED <<jobVars, future_templates>>
       ELSE LET new_job == JobFromTemplate(m, Unwrap(answer))
                id == new_job.job_id
                inner == InnerNewJobResult(new_job)
            IN /\ InnerNewJobEffect(new_job)
               /\ IF factory = "PoolChannelFactory"
                  THEN /\ ret' = inner
                       /\ UNCHANGED future_templates
                  ELSE IF IsSome(last_prev_hash)
                  THEN /\ ret' = IF inner.res = "Err" THEN inner
                                 ELSE [res |-> "Ok", val |-> inner.val,
                                       custom_job |-> Some(PartialSetCustomMiningJobOf(
                                           m, Unwrap(last_prev_hash).prev_hash,
                                           Unwrap(last_prev_hash).min_ntime,
                                           Unwrap(last_prev_hash).nbits)),
                                       job_id |-> id]
                       /\ UNCHANGED future_templates
                  ELSE /\ future_templates' =
                             IF is_future(new_job)
                             THEN MapInsert(future_templates, id, m)
                             ELSE future_templates
                       /\ ret' = IF inner.res = "Err" THEN inner
                                 ELSE [res |-> "Ok", val |-> inner.val,
                                       custom_job |-> None, job_id |-> id]
    /\ UNCHANGED <<chanVars, kindVars, negotiated_jobs, job_ids>>

\* PoolChannelFactory::on_new_template and ProxyExtendedChannelFactory::on_new_template
on_new_template(m, answer) ==
    /\ op' = [name |-> "on_new_template", m |-> m, answer |-> answer]
    /\ IF factory = "ProxyExtendedChannelFactory" /\ ~(HasJobCreator /\ PoolOutputsSet)
       THEN /\ ret' = [res |-> "Panic", at |-> "no job creator or pool outputs"]
            /\ UNCHANGED <<jobVars, future_templates>>
       ELSE IF IsNone(answer)
       THEN /\ ret' = ErrOf("JobsCreatorsError")
            /\ UNCHANGED <<jobVars, future_templates>>
       ELSE LET new_job == JobFromTemplate(m, Unwrap(answer))
                id == new_job.job_id
                inner == InnerNewJobResult(new_job)
            IN /\ InnerNewJobEffect(new_job)
               /\ IF factory = "PoolChannelFactory"
                  THEN /\ ret' = inner
                       /\ UNCHANGED future_templates
                  ELSE IF ~is_future(new_job) /\ IsSome(last_prev_hash)
                  THEN /\ ret' = IF inner.res = "Err" THEN inner
                                 ELSE [res |-> "Ok", val |-> inner.val,
                                       custom_job |-> Some(PartialSetCustomMiningJobOf(
                                           m, Unwrap(last_prev_hash).prev_hash,
                                           Unwrap(last_prev_hash).min_ntime,
                                           Unwrap(last_prev_hash).nbits)),
                                       job_id |-> id]
                       /\ UNCHANGED future_templates
                  ELSE /\ future_templates' =
                             IF is_future(new_job)
                             THEN MapInsert(future_templates, id, m)
                             ELSE future_templates
                       /\ ret' = IF inner.res = "Err" THEN inner
                                 ELSE [res |-> "Ok", val |-> inner.val,
                                       custom_job |-> None, job_id |-> id]
    /\ UNCHANGED <<chanVars, kindVars, negotiated_jobs, job_ids>>

\* faulty variant: only the template that matched the prev-hash is dropped
on_new_prev_hash_from_tp_drops_match(m, answer, now) ==
    LET job_id == IF IsSome(answer) THEN Unwrap(answer) ELSE 0
        new_prev_hash == [job_id |-> job_id, prev_hash |-> m.prev_hash,
                          min_ntime |-> m.header_timestamp, nbits |-> m.n_bits]
        custom_job ==
            IF job_id \in DOMAIN future_templates
            THEN Some(<<PartialSetCustomMiningJobOf(
                            future_templates[job_id], new_prev_hash.prev_hash,
                            new_prev_hash.min_ntime, new_prev_hash.nbits),
                        job_id>>)
            ELSE None
    IN /\ op' = [name |-> "on_new_prev_hash_from_tp", m |-> m, answer |-> answer,
                 now |-> now]
       /\ IF factory = "ProxyExtendedChannelFactory" /\ ~HasJobCreator
          THEN /\ ret' = [res |-> "Panic", at |-> "no job creator"]
               /\ UNCHANGED <<jobVars, future_templates>>
          ELSE /\ last_valid_job' =
                     DrainFutureJobs(future_jobs, last_valid_job, job_id, now)
               /\ future_jobs' = <<>>
               /\ last_prev_hash_' = Some(u256_to_block_hash(new_prev_hash.prev_hash))
               /\ last_prev_hash' = Some(new_prev_hash)
               /\ IF factory = "PoolChannelFactory"
                  THEN /\ ret' = [res |-> "Ok", val |-> job_id]
                       /\ UNCHANGED future_templates
                  ELSE /\ ret' = [res |-> "Ok", val |-> custom_job]
                       /\ future_templates' =
                             [j \in DOMAIN future_templates \ {job_id} |->
                                 future_templates[j]]
       /\ UNCHANGED <<chanVars, kindVars, negotiated_jobs, job_ids>>

\* faulty variant: a prev-hash from the template provider drops the negotiated jobs
on_new_prev_hash_from_tp_drops_negotiated(m, answer, now) ==
    LET job_id == IF IsSome(answer) THEN Unwrap(answer) ELSE 0
        new_prev_hash == [job_id |-> job_id, prev_hash |-> m.prev_hash,
                          min_ntime |-> m.header_timestamp, nbits |-> m.n_bits]
        custom_job ==
            IF job_id \in DOMAIN future_templates
            THEN Some(<<PartialSetCustomMiningJobOf(
                            future_templates[job_id], new_prev_hash.prev_hash,
                            new_prev_hash.min_ntime, new_prev_hash.nbits),
                        job_id>>)
            ELSE None
    IN /\ op' = [name |-> "on_new_prev_hash_from_tp", m |-> m, answer |-> answer,
                 now |-> now]
       /\ IF factory = "ProxyExtendedChannelFactory" /\ ~HasJobCreator
          THEN /\ ret' = [res |-> "Panic", at |-> "no job creator"]
               /\ UNCHANGED <<jobVars, future_templates>>
          ELSE /\ last_valid_job' =
                     DrainFutureJobs(future_jobs, last_valid_job, job_id, now)
               /\ future_jobs' = <<>>
               /\ last_prev_hash_' = Some(u256_to_block_hash(new_prev_hash.prev_hash))
               /\ last_prev_hash' = Some(new_prev_hash)
               /\ IF factory = "PoolChannelFactory"
                  THEN /\ ret' = [res |-> "Ok", val |-> job_id]
                       /\ UNCHANGED future_templates
                  ELSE /\ ret' = [res |-> "Ok", val |-> custom_job]
                       /\ future_templates' = EmptyMap
       /\ negotiated_jobs' = EmptyMap
       /\ UNCHANGED <<chanVars, kindVars, job_ids>>

\* PoolChannelFactory::on_new_prev_hash_from_tp and
\* ProxyExtendedChannelFactory::on_new_prev_hash_from_tp
on_new_prev_hash_from_tp(m, answer, now) ==
    LET job_id == IF IsSome(answer) THEN Unwrap(answer) ELSE 0
        new_prev_hash == [job_id |-> job_id, prev_hash |-> m.prev_hash,
                          min_ntime |-> m.header_timestamp, nbits |-> m.n_bits]
        custom_job ==
            IF job_id \in DOMAIN future_templates
            THEN Some(<<PartialSetCustomMiningJobOf(
                            future_templates[job_id], new_prev_hash.prev_hash,
                            new_prev_hash.min_ntime, new_prev_hash.nbits),
                        job_id>>)
            ELSE None
    IN /\ op' = [name |-> "on_new_prev_hash_from_tp", m |-> m, answer |-> answer,
                 now |-> now]
       /\ IF factory = "ProxyExtendedChannelFactory" /\ ~HasJobCreator
          THEN /\ ret' = [res |-> "Panic", at |-> "no job creator"]
               /\ UNCHANGED <<jobVars, future_templates>>
          ELSE /\ last_valid_job' =
                     DrainFutureJobs(future_jobs, last_valid_job, job_id, now)
               /\ future_jobs' = <<>>
               /\ last_prev_hash_' = Some(u256_to_block_hash(new_prev_hash.prev_hash))
               /\ last_prev_hash' = Some(new_prev_hash)
               /\ IF factory = "PoolChannelFactory"
                  THEN /\ ret' = [res |-> "Ok", val |-> job_id]
                       /\ UNCHANGED future_templates
                  ELSE /\ ret' = [res |-> "Ok", val |-> custom_job]
                       /\ future_templates' = EmptyMap
       /\ UNCHANGED <<chanVars, kindVars, negotiated_jobs, job_ids>>

(* ------------------- the factory's protocol state machine -------------- *)
Next ==
    \/ \E m \in StagedInputs, now \in NowValues : on_new_prev_hash(m, now)
    \/ \E m \in JobInputs : on_new_extended_mining_job(m)
    \/ \E r \in RequestIds, h \in HashRates, s \in MinExtranonceSizes :
          new_extended_channel(r, h, s)
    \/ \E c \in ReplicatedIds :
          replicate_upstream_extended_channel_only_jd(
              TargetToU256(3), ReplicatedPrefix, c, Range2Len)
    \/ \E c \in ChannelIdInputs, t \in UpdateTargets : update_target_for_channel(c, t)

Spec == Init /\ [][Next]_vars

(* ---------- share validation, over a smaller set of job events --------- *)
ShareStagedInputs ==
    {[job_id |-> 1, prev_hash |-> p, min_ntime |-> 60, nbits |-> 70] :
        p \in PrevHashes}
\* a job whose coinbase prefix cannot be parsed
BadCoinbaseJob == [MkJob(2, Some(40)) EXCEPT !.coinbase_tx_prefix = <<>>]
ShareJobInputs == {MkJob(id, Some(40)) : id \in JobIds} \cup {BadCoinbaseJob}

NextShares ==
    \/ \E m \in ShareStagedInputs, now \in NowValues : on_new_prev_hash(m, now)
    \/ \E m \in ShareJobInputs : on_new_extended_mining_job(m)
    \/ \E r \in RequestIds : new_extended_channel(r, 1, Range2Len)
    \/ \E t \in UpdateTargets : update_target_for_channel(1, t)
    \/ \E t \in UpstreamTargets : set_target(t)
    \/ \E m \in CustomJobInputs : on_new_set_custom_mining_job(m)
    \/ \E m \in ExtendedShareInputs, a \in CreatorInputs :
          on_submit_shares_extended(m, a.target, a.template_id)
    \/ \E m \in StandardShareInputs, a \in CreatorInputs :
          on_submit_shares_standard(m, a.target, a.template_id)

SpecShares == Init /\ [][NextShares]_vars

(* -------- templates, prev-hashes from the template provider, shares ----- *)
TemplateShareInputs == {ExtendedShare(c, 1, 0) : c \in {1, MaxChannels + 1}}
TemplateStandardShareInputs == {StandardShare(1, 1, 0)}
\* one answer of the job creator where the factory owns one
TemplateCreatorInputs ==
    IF HasJobCreator THEN {[target |-> 2, template_id |-> Some(100)]}
    ELSE {[target |-> 0, template_id |-> None]}

\* two custom jobs for one channel, told apart by request id and nbits
TemplateCustomJobInputs ==
    CustomJobInputs \cup
    {[m EXCEPT !.request_id = 22, !.nbits = 73] : m \in CustomJobInputs}

NextTemplates ==
    \/ \E m \in TemplateInputs : \E a \in NewTemplateAnswers(m) : on_new_template(m, a)
    \/ \E m \in PrevHashFromTpInputs, a \in NewPrevHashAnswers, now \in NowValues :
          on_new_prev_hash_from_tp(m, a, now)
    \/ \E m \in ShareStagedInputs, now \in NowValues : on_new_prev_hash(m, now)
    \/ \E m \in {MkJob(1, Some(40))} : on_new_extended_mining_job(m)
    \/ \E r \in RequestIds : new_extended_channel(r, 1, Range2Len)
    \/ \E m \in TemplateCustomJobInputs : on_new_set_custom_mining_job(m)
    \/ \E m \in TemplateShareInputs, a \in TemplateCreatorInputs :
          on_submit_shares_extended(m, a.target, a.template_id)
    \/ \E m \in TemplateStandardShareInputs, a \in TemplateCreatorInputs :
          on_submit_shares_standard(m, a.target, a.template_id)

SpecTemplates == Init /\ [][NextTemplates]_vars

(* ------------------- OnNewShare::into_extended, applied ---------------- *)
\* the shares an OnNewShare value may hold
ConvertibleShares ==
    {ExtendedShare(c, 1, n) : c \in {1, 2}, n \in {0, 1}} \cup
    {ShareStandard(StandardShare(c, 1, n), 0) : c \in {1, 2}, n \in {0, 1}}
\* OnNewShare values, one set per variant
OnNewShareInputs ==
    {[arm |-> "SendSubmitShareUpstream", share |-> sh, template_id |-> t] :
        sh \in ConvertibleShares, t \in {None, Some(FirstTemplateId)}} \cup
    {[arm |-> "ShareMeetBitcoinTarget", share |-> sh, template_id |-> t,
      coinbase |-> <<21, 9, 1, 8, 31>>, extranonce |-> <<9, 1, 8>>] :
        sh \in ConvertibleShares, t \in {None, Some(FirstTemplateId)}} \cup
    {[arm |-> "ShareMeetDownstreamTarget"], [arm |-> "RelaySubmitShareUpstream"]} \cup
    {[arm |-> "SendErrorDownstream",
      error |-> [channel_id |-> 1, sequence_number |-> 5,
                 error_code |-> "difficulty-too-low"]]}
\* the extranonce and upstream channel id handed to into_extended
ConversionExtranonces == {<<1, 8>>, <<2, 8>>}
UpstreamIds == {extended_channel_id, 3}

\* a call of into_extended on a value of its own
apply_into_extended(self, extranonce, up_id) ==
    /\ op' = [name |-> "into_extended", self |-> self, extranonce |-> extranonce,
              up_id |-> up_id]
    /\ ret' = into_extended(self, extranonce, up_id)
    /\ UNCHANGED <<chanVars, jobVars, kindVars, poolVars>>

NextConversions ==
    \E self \in OnNewShareInputs, e \in ConversionExtranonces, u \in UpstreamIds :
        apply_into_extended(self, e, u)

SpecConversions == Init /\ [][NextConversions]_vars

(* ===================== properties of on_new_prev_hash =================== *)

\* C1: immediately after every on_new_prev_hash(staged) the future_jobs queue
\* is empty and last_valid_job is None or a job whose job_id is staged.job_id,
\* also when the queue was already empty and an earlier valid job was present.
C1_AfterPrevHashJobMatches ==
    op.name = "on_new_prev_hash" =>
        /\ future_jobs = <<>>
        /\ \/ IsNone(last_valid_job)
           \/ Unwrap(last_valid_job).job_id = op.m.job_id

\* the state C1 excludes: a valid job of another job_id outlives the prev-hash
C1_StaleValidJob ==
    /\ op.name = "on_new_prev_hash"
    /\ IsSome(last_valid_job)
    /\ Unwrap(last_valid_job).job_id # op.m.job_id
    /\ Unwrap(last_prev_hash).job_id = op.m.job_id

\* C9: if future_jobs holds a job whose job_id is staged.job_id, then after
\* on_new_prev_hash(staged) last_valid_job is that job with its future flag
\* cleared, wherever it stood in the queue and whatever else was buffered, and
\* every other buffered job is discarded.
C9_MatchingFutureJobPromoted ==
    [][(op'.name = "on_new_prev_hash"
        /\ \E i \in 1..Len(future_jobs) : future_jobs[i].job_id = op'.m.job_id)
       => /\ future_jobs' = <<>>
          /\ IsSome(last_valid_job')
          /\ ~is_future(Unwrap(last_valid_job'))
          /\ \E i \in 1..Len(future_jobs) :
                /\ future_jobs[i].job_id = op'.m.job_id
                /\ Unwrap(last_valid_job') = set_no_future(future_jobs[i], op'.now)
      ]_vars

\* a job promoted from the queue: it carries the time of the call as min_ntime
C9_PromotedFromQueue ==
    /\ op.name = "on_new_prev_hash"
    /\ IsSome(last_valid_job)
    /\ Unwrap(last_valid_job).job_id = op.m.job_id
    /\ Unwrap(last_valid_job).min_ntime = Some(op.now)
    /\ future_jobs = <<>>

\* C10: on_new_prev_hash is total: it can be called in every state with every
\* staged prev-hash, returns Ok, and afterwards the recorded prev-hash carries
\* exactly the staged job_id, prev_hash, min_ntime and nbits, with the parsed
\* block hash taken from the same prev_hash, replacing any earlier one.
C10_PrevHashRecorded ==
    /\ \A m \in StagedInputs, now \in NowValues : ENABLED on_new_prev_hash(m, now)
    /\ op.name = "on_new_prev_hash" =>
          /\ ret = [res |-> "Ok"]
          /\ IsSome(last_prev_hash)
          /\ Unwrap(last_prev_hash).job_id = op.m.job_id
          /\ Unwrap(last_prev_hash).prev_hash = op.m.prev_hash
          /\ Unwrap(last_prev_hash).min_ntime = op.m.min_ntime
          /\ Unwrap(last_prev_hash).nbits = op.m.nbits
          /\ last_prev_hash_ = Some(u256_to_block_hash(op.m.prev_hash))

\* a second prev-hash, with another hash and job_id, after channels were opened
C10_PrevHashReplaced ==
    /\ op.name = "on_new_prev_hash"
    /\ op.m.prev_hash = 2 /\ op.m.job_id = 2
    /\ IsSome(last_valid_job) /\ Unwrap(last_valid_job).job_id = 1
    /\ Unwrap(last_prev_hash) = op.m
    /\ DOMAIN extended_channels # {}

(* ================ properties of on_new_extended_mining_job ============== *)

\* C2: on_new_extended_mining_job with a non-future job while no prev-hash was
\* ever received returns Err(JobIsNotFutureButPrevHashNotPresent) and leaves
\* future_jobs, last_valid_job, last_prev_hash and the channel tables unchanged.
C2_NonFutureJobWithoutPrevHash ==
    [][(op'.name = "on_new_extended_mining_job"
        /\ ~is_future(op'.m) /\ IsNone(last_prev_hash))
       => /\ ret' = [res |-> "Err", err |-> "JobIsNotFutureButPrevHashNotPresent"]
          /\ UNCHANGED <<future_jobs, last_valid_job, last_prev_hash,
                         last_prev_hash_, extended_channels, channel_to_group_id>>
      ]_vars

\* the rejected job met buffered future jobs and an open channel
C2_RejectedWithJobsBuffered ==
    /\ op.name = "on_new_extended_mining_job"
    /\ ~is_future(op.m)
    /\ ret = [res |-> "Err", err |-> "JobIsNotFutureButPrevHashNotPresent"]
    /\ IsNone(last_prev_hash) /\ IsNone(last_valid_job)
    /\ Len(future_jobs) = MaxFutureJobs
    /\ DOMAIN extended_channels # {}

(* =================== properties of new_extended_channel ================= *)

\* the last call was a new_extended_channel that opened a channel
OpenedChannel ==
    /\ op.name = "new_extended_channel"
    /\ op.min_extranonce_size <= Range2Len
    /\ ret.res = "Ok"

\* C3: a successful new_extended_channel returns its messages in this order:
\* OpenExtendedMiningChannelSuccess first; then, if a valid job exists, the
\* copy of that job; then the SetNewPrevHash if a prev-hash exists; then every
\* buffered future job in the order the jobs were appended to future_jobs.
C3_OpenBatchOrder ==
    OpenedChannel =>
        LET msgs == ret.val
            nJob == IF IsSome(last_valid_job) THEN 1 ELSE 0
            nHash == IF IsSome(last_prev_hash) THEN 1 ELSE 0
        IN /\ Len(msgs) = 1 + nJob + nHash + Len(future_jobs)
           /\ msgs[1].type = "OpenExtendedMiningChannelSuccess"
           /\ msgs[1].msg = extended_channels[ids]
           /\ IsSome(last_valid_job) =>
                 /\ msgs[2].type = "NewExtendedMiningJob"
                 /\ msgs[2].job = set_future(Unwrap(last_valid_job))
           /\ IsSome(last_prev_hash) =>
                 /\ msgs[1 + nJob + 1].type = "SetNewPrevHash"
                 /\ msgs[1 + nJob + 1].prev_hash = Unwrap(last_prev_hash).prev_hash
           /\ \A i \in 1..Len(future_jobs) :
                 msgs[1 + nJob + nHash + i] =
                     [type |-> "NewExtendedMiningJob", job |-> future_jobs[i]]

\* a channel opened with a valid job, a prev-hash and two different future jobs
C3_FullBatch ==
    /\ OpenedChannel
    /\ IsSome(last_valid_job) /\ IsSome(last_prev_hash)
    /\ Len(future_jobs) = 2
    /\ future_jobs[1].job_id # future_jobs[2].job_id
    /\ Len(ret.val) = 5

\* the number of SetNewPrevHash messages of a batch
CountSetNewPrevHash(msgs) ==
    Cardinality({i \in 1..Len(msgs) : msgs[i].type = "SetNewPrevHash"})

\* C4: in every reachable state the batch returned by a successful
\* new_extended_channel begins with OpenExtendedMiningChannelSuccess and holds
\* exactly one SetNewPrevHash if a prev-hash has been recorded, none otherwise.
C4_OneSetNewPrevHashIffRecorded ==
    OpenedChannel =>
        /\ ret.val[1].type = "OpenExtendedMiningChannelSuccess"
        /\ CountSetNewPrevHash(ret.val) = (IF IsSome(last_prev_hash) THEN 1 ELSE 0)

\* a channel opened with a prev-hash recorded and no valid job
C4_PrevHashWithoutValidJob ==
    /\ OpenedChannel
    /\ IsSome(last_prev_hash) /\ IsNone(last_valid_job)
    /\ CountSetNewPrevHash(ret.val) = 1

\* C5: new_extended_channel with min_extranonce_size greater than range2_len
\* returns exactly one message, OpenMiningChannelError(unsupported extranonce
\* size) carrying the request_id, and records no channel: extended_channels,
\* channel_to_group_id and the id allocator are unchanged.
C5_UnsupportedExtranonceSize ==
    [][(op'.name = "new_extended_channel" /\ op'.min_extranonce_size > Range2Len)
       => /\ ret'.res = "Ok"
          /\ Len(ret'.val) = 1
          /\ ret'.val[1].type = "OpenMiningChannelError"
          /\ ret'.val[1].error_code = "unsupported-min-extranonce-size"
          /\ ret'.val[1].request_id = op'.request_id
          /\ UNCHANGED <<extended_channels, channel_to_group_id, ids, extranonces>>
      ]_vars

\* the refused request arrived while a channel was open and ids were left
C5_RefusedNextToOpenChannel ==
    /\ op.name = "new_extended_channel"
    /\ op.min_extranonce_size > Range2Len
    /\ ret.val[1].type = "OpenMiningChannelError"
    /\ DOMAIN extended_channels # {}
    /\ ids < MaxChannels

(* ================= properties of update_target_for_channel ============== *)

\* the arm check_target yields for an extended share with nonce n on channel c,
\* against fixed job data and bitcoin target b
ArmOnChannel(c, n, b) ==
    check_target(ExtendedShare(c, 1, n), b, None, 0, <<1>>, <<21>>, <<31>>,
                 u256_to_block_hash(1), 70).val.arm

\* the hash check_target compares for that share
HashOnChannel(c, n) ==
    Unwrap(ShareHash(ExtendedShare(c, 1, n),
                     extended_channels[c].extranonce_prefix \o <<8>>,
                     <<1>>, <<21>>, <<31>>, u256_to_block_hash(1), 70))

\* C8: update_target_for_channel(c, t) is a point mutation: for a recorded c it
\* returns Some(true), sets only that channel's target to t and changes no
\* other channel and no other field of the factory; for an unrecorded c it
\* returns None and changes nothing; later share classification on c uses t as
\* the downstream target.
C8_UpdateTargetPointMutation ==
    /\ [][op'.name = "update_target_for_channel" =>
         LET c == op'.channel_id
             t == op'.new_target
         IN /\ UNCHANGED <<factory, kind, job_creator, upstream_target, ids, extranonces,
                           channel_to_group_id, future_jobs, last_prev_hash,
                           last_prev_hash_, last_valid_job, negotiated_jobs,
                           job_ids, future_templates>>
            /\ DOMAIN extended_channels' = DOMAIN extended_channels
            /\ \A d \in DOMAIN extended_channels \ {c} :
                  extended_channels'[d] = extended_channels[d]
            /\ IF c \in DOMAIN extended_channels
               THEN /\ ret' = [res |-> "Some", val |-> TRUE]
                    /\ U256ToTarget(extended_channels'[c].target) = t
                    /\ extended_channels'[c] =
                          [extended_channels[c] EXCEPT
                              !.target = extended_channels'[c].target]
               ELSE /\ ret' = [res |-> "None"]
                    /\ extended_channels' = extended_channels
      ]_vars
    /\ [](op.name = "update_target_for_channel" /\ ret.res = "Some" =>
            \A n \in Nonces, b \in Targets :
               ArmOnChannel(op.channel_id, n, b) =
                  Classify(HashOnChannel(op.channel_id, n), b,
                           KindUpstreamTarget, op.new_target))

\* one of two channels was given a new target, the other keeps a different one
C8_OneOfTwoChannelsUpdated ==
    /\ op.name = "update_target_for_channel"
    /\ ret = [res |-> "Some", val |-> TRUE]
    /\ Cardinality(DOMAIN extended_channels) = 2
    /\ \E d \in DOMAIN extended_channels \ {op.channel_id} :
          extended_channels[d].target # extended_channels[op.channel_id].target
    /\ U256ToTarget(extended_channels[op.channel_id].target) = op.new_target

(* ======================= properties of check_target ===================== *)

\* check_target on share m against the valid job and prev-hash of the factory
CheckOnValidJob(m, b) ==
    check_target(m, b, None, 0,
                 Unwrap(last_valid_job).merkle_path,
                 Unwrap(last_valid_job).coinbase_tx_prefix,
                 Unwrap(last_valid_job).coinbase_tx_suffix,
                 Unwrap(last_prev_hash_), Unwrap(last_prev_hash).nbits)

\* the hash of the header that share m yields on its channel and the valid job
HashOnValidJob(m) ==
    ShareHash(m, extended_channels[m.channel_id].extranonce_prefix \o m.extranonce,
              Unwrap(last_valid_job).merkle_path,
              Unwrap(last_valid_job).coinbase_tx_prefix,
              Unwrap(last_valid_job).coinbase_tx_suffix,
              Unwrap(last_prev_hash_), Unwrap(last_prev_hash).nbits)

\* the shares of a recorded channel whose header can be hashed
HashableShares ==
    IF IsSome(last_valid_job) /\ IsSome(last_prev_hash)
    THEN {m \in {ExtendedShare(c, 1, n) : c \in DOMAIN extended_channels,
                                           n \in Nonces} :
             IsSome(HashOnValidJob(m))}
    ELSE {}

\* C6: for a share on a known channel check_target classifies by the first
\* test that holds, in this order: hash <= bitcoin_target gives
\* ShareMeetBitcoinTarget; else hash <= upstream_target gives
\* SendSubmitShareUpstream; else hash <= the channel's downstream target gives
\* ShareMeetDownstreamTarget; else SendErrorDownstream with the
\* difficulty-too-low error code and the share's channel_id and sequence_number.
C6_FirstTestThatHolds ==
    \A m \in HashableShares, b \in Targets :
        LET hash == Unwrap(HashOnValidJob(m))
            downstream == U256ToTarget(extended_channels[m.channel_id].target)
            r == CheckOnValidJob(m, b)
        IN /\ r.res = "Ok"
           /\ IF hash <= b THEN r.val.arm = "ShareMeetBitcoinTarget"
              ELSE IF hash <= KindUpstreamTarget
              THEN r.val.arm = "SendSubmitShareUpstream"
              ELSE IF hash <= downstream
              THEN r.val.arm = "ShareMeetDownstreamTarget"
              ELSE /\ r.val.arm = "SendErrorDownstream"
                   /\ r.val.error =
                         [channel_id |-> m.channel_id,
                          sequence_number |-> m.sequence_number,
                          error_code |-> "difficulty-too-low"]

\* a submitted share on a known channel missed all three targets, and with the
\* same upstream target a hash met the bitcoin target that it also satisfies
C6_ShareMissedEveryTarget ==
    /\ op.name = "on_submit_shares_extended"
    /\ op.m \in HashableShares
    /\ ret.res = "Ok"
    /\ ret.val.arm = "SendErrorDownstream"
    /\ ret.val.error = [channel_id |-> op.m.channel_id,
                        sequence_number |-> op.m.sequence_number,
                        error_code |-> "difficulty-too-low"]
    /\ \E m \in HashableShares :
          /\ Unwrap(HashOnValidJob(m)) <= KindUpstreamTarget
          /\ CheckOnValidJob(m, op.target).val.arm = "ShareMeetBitcoinTarget"

\* position of an outcome in the order Bitcoin, Upstream, Downstream, Error
Rank(arm) ==
    CASE arm = "ShareMeetBitcoinTarget" -> 0
      [] arm = "SendSubmitShareUpstream" -> 1
      [] arm = "ShareMeetDownstreamTarget" -> 2
      [] arm = "SendErrorDownstream" -> 3

\* C7: share classification is monotone in the hash: for fixed bitcoin,
\* upstream and downstream targets, in any relative order, and two hashes
\* h1 <= h2, the outcome for h2 is never earlier than the outcome for h1 in
\* the order Bitcoin, Upstream, Downstream, Error.
C7_MonotoneInHash ==
    \A c \in DOMAIN extended_channels, b \in Targets :
        LET outcomes == {<<Unwrap(HashOnValidJob(m)),
                           Rank(CheckOnValidJob(m, b).val.arm)>> :
                            m \in {x \in HashableShares : x.channel_id = c}}
        IN \A o1 \in outcomes, o2 \in outcomes :
              o1[1] <= o2[1] => o1[2] <= o2[2]

\* a share was sent upstream while the channel's target lies below the
\* upstream target, and a worse hash on the same channel is an error
C7_UpstreamAboveDownstream ==
    /\ op.name = "on_submit_shares_extended"
    /\ op.m \in HashableShares
    /\ ret.res = "Ok"
    /\ ret.val.arm = "SendSubmitShareUpstream"
    /\ U256ToTarget(extended_channels[op.m.channel_id].target) < KindUpstreamTarget
    /\ Unwrap(HashOnValidJob(op.m)) >
          U256ToTarget(extended_channels[op.m.channel_id].target)
    /\ \E m \in HashableShares :
          /\ m.channel_id = op.m.channel_id
          /\ Unwrap(HashOnValidJob(m)) > Unwrap(HashOnValidJob(op.m))
          /\ CheckOnValidJob(m, op.target).val.arm = "SendErrorDownstream"

(* ============ further properties of on_new_extended_mining_job ========== *)

\* C11: on_new_extended_mining_job with a future job appends it at the end of
\* future_jobs and leaves last_valid_job and the prev-hash unchanged, whether
\* or not a prev-hash exists; with a non-future job while a prev-hash exists
\* it replaces last_valid_job with that job and leaves future_jobs and the
\* prev-hash unchanged.
C11_JobStoredInItsSlot ==
    [][op'.name = "on_new_extended_mining_job" =>
         /\ is_future(op'.m) =>
               /\ future_jobs' = future_jobs \o <<op'.m>>
               /\ UNCHANGED <<last_valid_job, last_prev_hash, last_prev_hash_>>
         /\ (~is_future(op'.m) /\ IsSome(last_prev_hash)) =>
               /\ last_valid_job' = Some(op'.m)
               /\ UNCHANGED <<future_jobs, last_prev_hash, last_prev_hash_>>
      ]_vars

\* a future job joined a non-empty queue behind a different job while a
\* prev-hash and a valid job were present
C11_FutureJobAppendedBehind ==
    /\ op.name = "on_new_extended_mining_job"
    /\ is_future(op.m)
    /\ Len(future_jobs) = 2
    /\ future_jobs[2] = op.m /\ future_jobs[1] # op.m
    /\ IsSome(last_prev_hash) /\ IsSome(last_valid_job)

\* C12: when on_new_extended_mining_job succeeds, the returned map has exactly
\* one entry for each channel recorded in extended_channels at that moment and
\* no other entry; the entry under key c is the incoming job with channel_id
\* rewritten to c and every other field unchanged.
C12_FanOutPerChannel ==
    (op.name = "on_new_extended_mining_job" /\ ret.res = "Ok") =>
        /\ DOMAIN ret.val = DOMAIN extended_channels
        /\ \A c \in DOMAIN ret.val :
              /\ ret.val[c].type = "NewExtendedMiningJob"
              /\ ret.val[c].job.channel_id = c
              /\ [ret.val[c].job EXCEPT !.channel_id = op.m.channel_id] = op.m

\* a job was fanned out to two channels, neither of them the job's own channel_id
C12_FannedOutToTwoChannels ==
    /\ op.name = "on_new_extended_mining_job"
    /\ ret.res = "Ok"
    /\ Cardinality(DOMAIN ret.val) = 2
    /\ op.m.channel_id \notin DOMAIN ret.val

(* =============== further properties of new_extended_channel ============= *)

\* C13: when a valid job exists, the copy of it that new_extended_channel
\* replays to the new channel is marked future and is addressed to the new
\* channel: its channel_id equals the channel_id in the
\* OpenExtendedMiningChannelSuccess of the same batch.
C13_ReplayedJobAddressedToNewChannel ==
    (OpenedChannel /\ IsSome(last_valid_job)) =>
        /\ ret.val[2].type = "NewExtendedMiningJob"
        /\ is_future(ret.val[2].job)
        /\ ret.val[2].job.channel_id = ret.val[1].msg.channel_id

\* the replayed copy is marked future but still carries the channel_id the
\* valid job was stored with, not the id of the channel just opened
C13_ReplayedJobKeepsStoredChannelId ==
    /\ OpenedChannel /\ IsSome(last_valid_job)
    /\ is_future(ret.val[2].job)
    /\ ret.val[2].job.channel_id = Unwrap(last_valid_job).channel_id
    /\ ret.val[2].job.channel_id # ret.val[1].msg.channel_id

\* the SetNewPrevHash messages of the batch the last call returned
SetNewPrevHashesOfBatch ==
    {ret.val[i] : i \in {j \in 1..Len(ret.val) : ret.val[j].type = "SetNewPrevHash"}}

\* C14: in the batch returned by new_extended_channel the SetNewPrevHash has
\* channel_id equal to the new channel's id; its job_id equals the job_id of
\* the replayed valid job of the same batch when a valid job exists, even if
\* the stored prev-hash names a different job_id, and equals the stored
\* prev-hash's own job_id when no valid job exists.
C14_SetNewPrevHashIds ==
    OpenedChannel =>
        \A p \in SetNewPrevHashesOfBatch :
            /\ p.channel_id = ret.val[1].msg.channel_id
            /\ p.channel_id = ids
            /\ p.job_id = IF IsSome(last_valid_job)
                          THEN ret.val[2].job.job_id
                          ELSE Unwrap(last_prev_hash).job_id
            /\ p.prev_hash = Unwrap(last_prev_hash).prev_hash
            /\ p.min_ntime = Unwrap(last_prev_hash).min_ntime
            /\ p.nbits = Unwrap(last_prev_hash).nbits

\* a channel opened while the valid job and the stored prev-hash name
\* different job ids: the SetNewPrevHash carries the job's id
C14_JobIdTakenFromReplayedJob ==
    /\ OpenedChannel
    /\ IsSome(last_valid_job) /\ IsSome(last_prev_hash)
    /\ Unwrap(last_valid_job).job_id # Unwrap(last_prev_hash).job_id
    /\ ret.val[3].type = "SetNewPrevHash"
    /\ ret.val[3].job_id = Unwrap(last_valid_job).job_id
    /\ ret.val[3].channel_id = 2

(* ==================== properties of share submission ==================== *)

\* the last call was a share submission that returned an outcome
ShareOutcome ==
    /\ op.name \in {"on_submit_shares_extended", "on_submit_shares_standard"}
    /\ ret.res = "Ok"

\* C15: on a factory of kind Pool the upstream target is zero, so no share
\* submission ever yields SendSubmitShareUpstream, for any hash, any bitcoin
\* target and any downstream target.
C15_PoolNeverSendsUpstream ==
    kind = "Pool" =>
        /\ KindUpstreamTarget = 0
        /\ ShareOutcome => ret.val.arm # "SendSubmitShareUpstream"
        /\ \A m \in HashableShares, b \in Targets :
              CheckOnValidJob(m, b).val.arm # "SendSubmitShareUpstream"

\* a pool classified a share whose hash is zero, the only hash that meets the
\* pool's upstream target: it met the bitcoin target first
C15_PoolZeroHashIsBlock ==
    /\ kind = "Pool"
    /\ op.name = "on_submit_shares_extended"
    /\ op.m \in HashableShares
    /\ op.m.channel_id \notin DOMAIN negotiated_jobs
    /\ Unwrap(HashOnValidJob(op.m)) = 0
    /\ op.target = 0
    /\ ret.res = "Ok" /\ ret.val.arm = "ShareMeetBitcoinTarget"

\* a proxy of kind Proxy, built without a job creator
PureProxy == factory = "ProxyExtendedChannelFactory" /\ kind = "Proxy"

\* C16: on a pure proxy (kind Proxy, no job creator) the bitcoin target is zero
\* and a submitted share is never classified as ShareMeetBitcoinTarget, for
\* every share hash and every state.
C16_PureProxyNeverFindsBlock ==
    (PureProxy /\ ShareOutcome) =>
        /\ op.target = 0
        /\ ret.val.arm # "ShareMeetBitcoinTarget"

\* a pure proxy classified a share whose hash is zero as ShareMeetBitcoinTarget
C16_ZeroHashMeetsZeroTarget ==
    /\ PureProxy
    /\ op.name = "on_submit_shares_extended"
    /\ op.target = 0
    /\ op.m \in HashableShares
    /\ Unwrap(HashOnValidJob(op.m)) = 0
    /\ ret.res = "Ok" /\ ret.val.arm = "ShareMeetBitcoinTarget"

\* C17: share validation is pure with respect to factory state:
\* on_submit_shares_extended and on_submit_shares_standard (pool and proxy),
\* whatever they return, leave extended_channels, channel_to_group_id,
\* future_jobs, last_valid_job, last_prev_hash, negotiated_jobs and
\* future_templates unchanged.
C17_ShareValidationIsPure ==
    [][op'.name \in {"on_submit_shares_extended", "on_submit_shares_standard"} =>
         UNCHANGED <<extended_channels, channel_to_group_id, future_jobs,
                     last_valid_job, last_prev_hash, last_prev_hash_,
                     negotiated_jobs, future_templates>>
      ]_vars

\* a share on an open channel was classified while the factory held a
\* future job, a valid job, a prev-hash and a stored template
C17_ShareClassifiedOnFullFactory ==
    /\ op.name = "on_submit_shares_extended"
    /\ ret.res = "Ok"
    /\ op.m.channel_id \in DOMAIN extended_channels
    /\ ret.val.arm \in {"ShareMeetBitcoinTarget", "SendSubmitShareUpstream",
                        "ShareMeetDownstreamTarget"}
    /\ DOMAIN extended_channels # {}
    /\ future_jobs # <<>>
    /\ IsSome(last_valid_job) /\ IsSome(last_prev_hash)
    /\ DOMAIN future_templates # {}

\* a pool handler received a share for a channel without a group id
UnknownChannelOnPool ==
    /\ factory = "PoolChannelFactory"
    /\ op.name \in {"on_submit_shares_standard", "on_submit_shares_extended"}
    /\ op.m.channel_id \notin DOMAIN channel_to_group_id

\* C18: on a pool factory, on_submit_shares_standard and
\* on_submit_shares_extended for a channel_id without an entry in
\* channel_to_group_id return Ok(SendErrorDownstream) with the invalid-channel
\* error code and the share's channel_id and sequence_number, in every state.
C18_UnknownChannelAnswered ==
    UnknownChannelOnPool =>
        ret = SubmitSharesErrorOf(op.m, "invalid-channel-id")

\* with a valid job, a prev-hash and a template at hand, the pool answered an
\* extended share for an unknown channel with Err(ShareDoNotMatchAnyChannel)
C18_ExtendedShareOnUnknownChannelIsErr ==
    /\ UnknownChannelOnPool
    /\ op.name = "on_submit_shares_extended"
    /\ IsSome(last_valid_job) /\ IsSome(last_prev_hash)
    /\ IsSome(op.template_id)
    /\ ret = ErrOf("ShareDoNotMatchAnyChannel")

\* the handler's answer came out of check_target's comparison with the targets
ClassifiedByTarget ==
    /\ ret.res = "Ok"
    /\ \/ ret.val.arm \in {"ShareMeetBitcoinTarget", "SendSubmitShareUpstream",
                            "ShareMeetDownstreamTarget"}
       \/ /\ ret.val.arm = "SendErrorDownstream"
          /\ ret.val.error.error_code = "difficulty-too-low"

\* C19: on a proxy with a valid job, on_submit_shares_extended for a share whose
\* job_id differs from last_valid_job's returns Ok(SendErrorDownstream) with the
\* invalid-job-id code and the share's channel_id and sequence_number, without
\* classifying it; a share is classified only when its job_id equals the valid
\* job's id.
C19_StaleJobIdRefused ==
    (/\ factory = "ProxyExtendedChannelFactory"
     /\ op.name = "on_submit_shares_extended"
     /\ IsSome(last_valid_job)) =>
        /\ Unwrap(last_valid_job).job_id # op.m.job_id =>
              ret = SubmitSharesErrorOf(op.m, "invalid-job-id")
        /\ ClassifiedByTarget => Unwrap(last_valid_job).job_id = op.m.job_id

\* a share on an open channel, whose hash under the valid job would meet the
\* channel's target, was refused because it names another job
C19_GoodHashRefusedForJobId ==
    /\ factory = "ProxyExtendedChannelFactory"
    /\ op.name = "on_submit_shares_extended"
    /\ IsSome(last_valid_job) /\ IsSome(last_prev_hash)
    /\ Unwrap(last_valid_job).job_id # op.m.job_id
    /\ op.m.channel_id \in DOMAIN extended_channels
    /\ IsSome(HashOnValidJob(op.m))
    /\ Unwrap(HashOnValidJob(op.m))
           <= U256ToTarget(extended_channels[op.m.channel_id].target)
    /\ ret = SubmitSharesErrorOf(op.m, "invalid-job-id")

\* a proxy classified the submitted share as SendSubmitShareUpstream
ProxySentShareUpstream ==
    /\ factory = "ProxyExtendedChannelFactory"
    /\ ShareOutcome
    /\ ret.val.arm = "SendSubmitShareUpstream"

\* the channel's extranonce prefix followed by the miner's bytes
FullExtranonce(m) == extended_channels[m.channel_id].extranonce_prefix \o m.extranonce

\* C20: on a proxy, when a submitted share is classified
\* SendSubmitShareUpstream, the share in the result has channel_id equal to the
\* proxy's upstream extended_channel_id and extranonce equal to the full
\* extranonce with the first range0_len bytes removed.
C20_UpstreamShareRewritten ==
    ProxySentShareUpstream =>
        /\ ret.val.share.channel_id = extended_channel_id
        /\ ret.val.share.extranonce = DropFirst(FullExtranonce(op.m), Range0Len)

\* the share a proxy hands upstream carries the stripped extranonce but still
\* the downstream channel's id
C20_UpstreamShareKeepsDownstreamChannel ==
    /\ ProxySentShareUpstream
    /\ op.name = "on_submit_shares_extended"
    /\ ret.val.share.extranonce = DropFirst(FullExtranonce(op.m), Range0Len)
    /\ ret.val.share.channel_id = op.m.channel_id
    /\ op.m.channel_id # extended_channel_id

\* a pool received an extended share on a channel that has a negotiated job
ShareOnNegotiatedJob ==
    /\ factory = "PoolChannelFactory"
    /\ op.name = "on_submit_shares_extended"
    /\ op.m.channel_id \in DOMAIN negotiated_jobs

\* the hash of share m on its channel under the channel's negotiated job
HashOnNegotiatedJob(m) ==
    LET cj == negotiated_jobs[m.channel_id]
        ej == extended_job_from_custom_job(cj, ExtranonceLen)
    IN ShareHash(m, extended_channels[m.channel_id].extranonce_prefix \o m.extranonce,
                 cj.merkle_path, ej.coinbase_tx_prefix, ej.coinbase_tx_suffix,
                 u256_to_block_hash(cj.prev_hash), cj.nbits)

\* C21: on a pool, an extended share on a channel with a negotiated custom job
\* is validated with that job's prev_hash, nbits and merkle path and with
\* template_id None, not with the factory's last_prev_hash or last_valid_job:
\* the outcome is determined by the share, the creator's target, the custom job
\* and the channel alone, also when the factory holds no valid job or prev-hash.
C21_NegotiatedJobDecidesOutcome ==
    ShareOnNegotiatedJob =>
        IF op.m.channel_id \notin DOMAIN extended_channels
        THEN ret = ErrOf("ShareDoNotMatchAnyChannel")
        ELSE LET hash == Unwrap(HashOnNegotiatedJob(op.m))
                 downstream == U256ToTarget(extended_channels[op.m.channel_id].target)
             IN /\ IsSome(HashOnNegotiatedJob(op.m))
                /\ ret.res = "Ok"
                /\ ret.val.arm = Classify(hash, op.target, KindUpstreamTarget, downstream)
                /\ ret.val.arm \in {"ShareMeetBitcoinTarget", "SendSubmitShareUpstream"} =>
                       ret.val.template_id = None

\* a share on a negotiated job met the bitcoin target while the factory held
\* neither a valid job nor a prev-hash
C21_BlockFoundWithoutFactoryJob ==
    /\ ShareOnNegotiatedJob
    /\ IsNone(last_valid_job) /\ IsNone(last_prev_hash)
    /\ ret.res = "Ok" /\ ret.val.arm = "ShareMeetBitcoinTarget"
    /\ ret.val.template_id = None

\* C22: on_new_set_custom_mining_job always returns SetCustomMiningJobSuccess
\* echoing the message's channel_id and request_id, stores the message in
\* negotiated_jobs under its channel_id (replacing any earlier one for that
\* channel), and the job_ids of successive calls are pairwise distinct: each
\* returned id is above the counter, which no step ever lowers.
C22_CustomJobStoredUnderFreshId ==
    [][/\ job_ids' >= job_ids
       /\ op'.name = "on_new_set_custom_mining_job" =>
            /\ ret'.res = "Ok"
            /\ ret'.val.type = "SetCustomMiningJobSuccess"
            /\ ret'.val.channel_id = op'.m.channel_id
            /\ ret'.val.request_id = op'.m.request_id
            /\ DOMAIN negotiated_jobs' = DOMAIN negotiated_jobs \cup {op'.m.channel_id}
            /\ negotiated_jobs'[op'.m.channel_id] = op'.m
            /\ \A c \in DOMAIN negotiated_jobs \ {op'.m.channel_id} :
                   negotiated_jobs'[c] = negotiated_jobs[c]
            /\ ret'.val.job_id > job_ids
            /\ ret'.val.job_id = job_ids'
      ]_vars

\* the second custom job of a pool was stored under job id 2 for the channel
\* that already had one
C22_SecondCustomJobStored ==
    /\ op.name = "on_new_set_custom_mining_job"
    /\ ret.res = "Ok" /\ ret.val.job_id = 2
    /\ ret.val.request_id = 22
    /\ negotiated_jobs[op.m.channel_id] = op.m

\* C23: ProxyExtendedChannelFactory::new succeeds exactly when (kind is Proxy
\* and no job creator is given) or (kind is ProxyJd and a job creator is
\* given); kind Pool, Proxy with a creator and ProxyJd without one abort. Hence
\* in every live proxy factory a job creator is present iff the kind is ProxyJd.
C23_ProxyConstructionRules ==
    /\ \A k \in Kinds, creator \in BOOLEAN :
          /\ ProxyNew(k, creator) = "Ok" <=>
                \/ k = "Proxy" /\ ~creator
                \/ k = "ProxyJd" /\ creator
          /\ ProxyNew(k, creator) # "Ok" => ProxyNew(k, creator) = "Panic"
    /\ factory = "ProxyExtendedChannelFactory" =>
          /\ kind \in {"Proxy", "ProxyJd"}
          /\ job_creator <=> kind = "ProxyJd"

\* a proxy built with a job creator has used it to turn a template into a job
C23_JobDeclaringProxyAtWork ==
    /\ factory = "ProxyExtendedChannelFactory"
    /\ kind = "ProxyJd" /\ job_creator
    /\ op.name = "on_new_template" /\ ret.res = "Ok"

\* the job id on_new_prev_hash_from_tp resolves the prev-hash message to
ResolvedJobId(answer) == IF IsSome(answer) THEN Unwrap(answer) ELSE 0

\* C24: on a ProxyJd factory, after every on_new_prev_hash_from_tp the
\* future_templates map is empty, whether or not an entry matched; the call
\* returns Some((custom job, job_id)) exactly when future_templates held an
\* entry for the resolved job_id before the call, and that custom job takes
\* prev_hash, min_ntime and nbits from the prev-hash message and its coinbase
\* and merkle fields from the stored template.
C24_PrevHashFromTpClearsTemplates ==
    [][(/\ op'.name = "on_new_prev_hash_from_tp"
        /\ factory = "ProxyExtendedChannelFactory" /\ kind = "ProxyJd") =>
          LET job_id == ResolvedJobId(op'.answer)
          IN /\ DOMAIN future_templates' = {}
             /\ ret'.res = "Ok"
             /\ IsSome(ret'.val) <=> job_id \in DOMAIN future_templates
             /\ IsSome(ret'.val) =>
                   LET cj == Unwrap(ret'.val)[1]
                       t == future_templates[job_id]
                   IN /\ Unwrap(ret'.val)[2] = job_id
                      /\ cj.prev_hash = op'.m.prev_hash
                      /\ cj.min_ntime = op'.m.header_timestamp
                      /\ cj.nbits = op'.m.n_bits
                      /\ cj.version = t.version
                      /\ cj.coinbase_tx_version = t.coinbase_tx_version
                      /\ cj.coinbase_prefix = t.coinbase_prefix
                      /\ cj.coinbase_tx_input_n_sequence = t.coinbase_tx_input_sequence
                      /\ cj.coinbase_tx_value_remaining = t.coinbase_tx_value_remaining
                      /\ cj.coinbase_tx_outputs = t.coinbase_tx_outputs
                      /\ cj.coinbase_tx_locktime = t.coinbase_tx_locktime
                      /\ cj.merkle_path = t.merkle_path
                      /\ cj.future_job = t.future_template
      ]_vars

\* a prev-hash from the template provider matched the stored template 101 and
\* came back as a custom job, and no template is stored any more
C24_StoredTemplateBecameCustomJob ==
    /\ factory = "ProxyExtendedChannelFactory" /\ kind = "ProxyJd"
    /\ op.name = "on_new_prev_hash_from_tp"
    /\ ret.res = "Ok" /\ IsSome(ret.val)
    /\ Unwrap(ret.val)[1].merkle_path = <<101>>
    /\ Unwrap(ret.val)[1].prev_hash = op.m.prev_hash
    /\ DOMAIN future_templates = {}

\* C25: on a ProxyJd factory with pool outputs set, on_new_template returns
\* Some(PartialSetCustomMiningJob) exactly when the synthesized job is
\* non-future and a prev-hash exists, and that custom job carries the last
\* prev-hash's prev_hash, min_ntime and nbits; when the synthesized job is
\* future the template is stored in future_templates under the job's id and
\* None is returned; the returned id is always the synthesized job's job_id.
C25_TemplateToCustomJob ==
    [][(/\ op'.name = "on_new_template"
        /\ factory = "ProxyExtendedChannelFactory" /\ kind = "ProxyJd"
        /\ PoolOutputsSet
        /\ IsSome(op'.answer)) =>
          LET new_job == JobFromTemplate(op'.m, Unwrap(op'.answer))
              id == new_job.job_id
              ready == ~is_future(new_job) /\ IsSome(last_prev_hash)
          IN /\ ready => ret'.res = "Ok"
             /\ ret'.res = "Ok" =>
                   /\ ret'.job_id = id
                   /\ IsSome(ret'.custom_job) <=> ready
                   /\ IsSome(ret'.custom_job) =>
                         LET cj == Unwrap(ret'.custom_job)
                             ph == Unwrap(last_prev_hash)
                         IN /\ cj.prev_hash = ph.prev_hash
                            /\ cj.min_ntime = ph.min_ntime
                            /\ cj.nbits = ph.nbits
                            /\ cj.merkle_path = op'.m.merkle_path
                            /\ cj.coinbase_prefix = op'.m.coinbase_prefix
                            /\ cj.coinbase_tx_outputs = op'.m.coinbase_tx_outputs
             /\ IF is_future(new_job)
                THEN /\ ret'.res = "Ok"
                     /\ ret'.custom_job = None
                     /\ DOMAIN future_templates' = DOMAIN future_templates \cup {id}
                     /\ future_templates'[id] = op'.m
                     /\ \A j \in DOMAIN future_templates \ {id} :
                            future_templates'[j] = future_templates[j]
                ELSE UNCHANGED future_templates
      ]_vars

\* a non-future template arrived after a prev-hash and came back as a custom
\* job on that prev-hash, while a future template was waiting
C25_CustomJobOnLastPrevHash ==
    /\ factory = "ProxyExtendedChannelFactory" /\ kind = "ProxyJd"
    /\ op.name = "on_new_template"
    /\ ret.res = "Ok" /\ IsSome(ret.custom_job)
    /\ IsSome(last_prev_hash)
    /\ Unwrap(ret.custom_job).prev_hash = Unwrap(last_prev_hash).prev_hash
    /\ Unwrap(ret.custom_job).nbits = Unwrap(last_prev_hash).nbits
    /\ ret.job_id = Unwrap(op.answer)
    /\ DOMAIN future_templates # {}

\* C26: once a channel record exists in extended_channels, no later operation
\* removes it or changes its request_id, channel_id, extranonce_size or
\* extranonce_prefix; only its target may change.
C26_ChannelRecordImmutable ==
    [][\A c \in DOMAIN extended_channels :
          /\ c \in DOMAIN extended_channels'
          /\ extended_channels'[c].request_id = extended_channels[c].request_id
          /\ extended_channels'[c].channel_id = extended_channels[c].channel_id
          /\ extended_channels'[c].extranonce_size = extended_channels[c].extranonce_size
          /\ extended_channels'[c].extranonce_prefix = extended_channels[c].extranonce_prefix
      ]_vars

\* every id the factory handed out got its record from new_extended_channel,
\* and the record of one of them now is the one written by
\* replicate_upstream_extended_channel_only_jd
C26_ReplicateOverwroteOpenChannel ==
    /\ op.name = "replicate_upstream_extended_channel_only_jd"
    /\ ids >= 1 /\ extranonces = ids
    /\ op.channel_id <= ids
    /\ extended_channels[op.channel_id].request_id = 0
    /\ extended_channels[op.channel_id].extranonce_prefix = ReplicatedPrefix

\* C27: in every reachable state every channel_id recorded in
\* extended_channels has an entry in channel_to_group_id, and that entry is
\* group 0, whether the channel was created by new_extended_channel or by
\* replicate_upstream_extended_channel_only_jd.
C27_RecordedChannelsInGroupZero ==
    \A c \in DOMAIN extended_channels :
        /\ c \in DOMAIN channel_to_group_id
        /\ channel_to_group_id[c] = 0

\* the factory holds a replicated record and a record it opened itself
C27_ReplicatedAndOpenedChannels ==
    \E c, d \in DOMAIN extended_channels :
        /\ extended_channels[c].request_id = 0
        /\ extended_channels[c].extranonce_prefix = ReplicatedPrefix
        /\ extended_channels[d].request_id \in RequestIds
        /\ channel_to_group_id[c] = 0 /\ channel_to_group_id[d] = 0

\* the coinbase halves the share handler passed to check_target
CoinbaseHalves ==
    IF ShareOnNegotiatedJob
    THEN extended_job_from_custom_job(negotiated_jobs[op.m.channel_id], ExtranonceLen)
    ELSE [coinbase_tx_prefix |-> Unwrap(last_valid_job).coinbase_tx_prefix,
          coinbase_tx_suffix |-> Unwrap(last_valid_job).coinbase_tx_suffix]

\* C28: when a share is classified ShareMeetBitcoinTarget, the result carries
\* coinbase equal to coinbase prefix, full extranonce (channel prefix followed
\* by the miner's extranonce bytes), coinbase suffix concatenated, and carries
\* that same full extranonce, on pool and proxy alike.
C28_BlockCarriesFullCoinbase ==
    (ShareOutcome /\ ret.val.arm = "ShareMeetBitcoinTarget") =>
        /\ ret.val.extranonce = FullExtranonce(op.m)
        /\ ret.val.coinbase =
              CoinbaseHalves.coinbase_tx_prefix \o FullExtranonce(op.m)
                  \o CoinbaseHalves.coinbase_tx_suffix

\* a proxy found a block: the result holds the full extranonce and coinbase
\* while the share in it holds the extranonce without the upstream's part
C28_ProxyBlockWithFullExtranonce ==
    /\ factory = "ProxyExtendedChannelFactory"
    /\ ShareOutcome /\ ret.val.arm = "ShareMeetBitcoinTarget"
    /\ Len(ret.val.extranonce) = ExtranonceLen
    /\ ret.val.extranonce = FullExtranonce(op.m)
    /\ ret.val.share.extranonce = DropFirst(ret.val.extranonce, Range0Len)
    /\ Len(ret.val.coinbase) > ExtranonceLen

\* into_extended was applied to a result of one of the two arms that hold a share
ConvertedShareResult ==
    /\ op.name = "into_extended"
    /\ op.self.arm \in {"SendSubmitShareUpstream", "ShareMeetBitcoinTarget"}

\* C29: into_extended(ext, up_id) applied to a SendSubmitShareUpstream or
\* ShareMeetBitcoinTarget result holding a Standard share replaces it by an
\* Extended share with channel_id = up_id, extranonce = ext and
\* sequence_number, job_id, nonce, ntime and version preserved, keeping the
\* result's arm, template id, coinbase and full extranonce; applied to a result
\* holding an Extended share it changes nothing.
C29_StandardShareConverted ==
    ConvertedShareResult =>
        /\ ret.res = "Ok"
        /\ IF op.self.share.variant = "Extended"
           THEN ret.val = op.self
           ELSE /\ ret.val.share =
                      [variant |-> "Extended", channel_id |-> op.up_id,
                       sequence_number |-> op.self.share.sequence_number,
                       job_id |-> op.self.share.job_id,
                       nonce |-> op.self.share.nonce,
                       ntime |-> op.self.share.ntime,
                       version |-> op.self.share.version,
                       extranonce |-> op.extranonce]
                /\ ret.val.arm = op.self.arm
                /\ ret.val.template_id = op.self.template_id
                /\ DOMAIN ret.val = DOMAIN op.self
                /\ op.self.arm = "ShareMeetBitcoinTarget" =>
                      /\ ret.val.coinbase = op.self.coinbase
                      /\ ret.val.extranonce = op.self.extranonce

\* a block-finding result holding a Standard share came out holding an Extended
\* share on the upstream channel
C29_StandardBlockShareConverted ==
    /\ ConvertedShareResult
    /\ op.self.arm = "ShareMeetBitcoinTarget"
    /\ op.self.share.variant = "Standard"
    /\ op.self.share.channel_id # op.up_id
    /\ ret.res = "Ok"
    /\ ret.val.share.variant = "Extended"
    /\ ret.val.share.channel_id = op.up_id
    /\ ret.val.share.extranonce = op.extranonce

\* a Standard share arrived on a channel with a group id while a valid job, a
\* prev-hash and, where a job creator is asked, its template id were at hand
StandardShareReady ==
    /\ op.name = "on_submit_shares_standard"
    /\ op.m.channel_id \in DOMAIN channel_to_group_id
    /\ IsSome(last_valid_job) /\ IsSome(last_prev_hash) /\ IsSome(last_prev_hash_)
    /\ HasJobCreator => IsSome(op.template_id)

\* C30: a Standard share submitted through on_submit_shares_standard (pool or
\* proxy) on a channel_id present in channel_to_group_id, while a valid job,
\* its template id and a prev-hash are available, goes through the validation
\* pipeline and returns a value (a classification or an Error); the call does
\* not abort.
C30_StandardShareReturns ==
    StandardShareReady => ret.res \in {"Ok", "Err"}

\* a pool with an open channel, a valid job, a prev-hash and the job's template
\* id aborted on a Standard share in get_channel_specific_mining_info
C30_StandardShareAbortsOnPool ==
    /\ factory = "PoolChannelFactory" /\ kind = "Pool"
    /\ StandardShareReady
    /\ op.m.channel_id \in DOMAIN extended_channels
    /\ ret = [res |-> "Panic", at |-> "unimplemented"]

\* the header hash of the extended share just submitted, on the job the handler
\* validated it against
SubmittedShareHash ==
    IF ShareOnNegotiatedJob THEN Unwrap(HashOnNegotiatedJob(op.m))
    ELSE Unwrap(HashOnValidJob(op.m))

\* an extended share came back as a block or as a share for the upstream
SharePassedOn ==
    /\ op.name = "on_submit_shares_extended"
    /\ ret.res = "Ok"
    /\ ret.val.arm \in {"ShareMeetBitcoinTarget", "SendSubmitShareUpstream"}

\* C31: the three targets are concentric in effect: after any sequence of
\* new_extended_channel, update_target_for_channel and set_target calls, every
\* share classified ShareMeetBitcoinTarget or SendSubmitShareUpstream has a
\* hash that is also <= the downstream target of its channel.
C31_PassedOnShareMeetsDownstream ==
    SharePassedOn =>
        SubmittedShareHash <= U256ToTarget(extended_channels[op.m.channel_id].target)

\* a proxy sent upstream a share whose hash is above its channel's target
C31_UpstreamShareAboveDownstreamTarget ==
    /\ factory = "ProxyExtendedChannelFactory"
    /\ SharePassedOn
    /\ ret.val.arm = "SendSubmitShareUpstream"
    /\ SubmittedShareHash <= upstream_target
    /\ SubmittedShareHash > U256ToTarget(extended_channels[op.m.channel_id].target)

\* C32: in every reachable state, if last_valid_job is present then a prev-hash
\* is present, and last_prev_hash and last_prev_hash_ are either both absent or
\* both present and derived from the same prev_hash value.
C32_PrevHashFieldsAgree ==
    /\ IsSome(last_valid_job) => IsSome(last_prev_hash)
    /\ IsSome(last_prev_hash) <=> IsSome(last_prev_hash_)
    /\ IsSome(last_prev_hash) =>
          Unwrap(last_prev_hash_) = u256_to_block_hash(Unwrap(last_prev_hash).prev_hash)

\* a non-future job became the valid job on top of the second of the two
\* prev-hash values, held in both fields
C32_ValidJobOnLaterPrevHash ==
    /\ op.name = "on_new_extended_mining_job"
    /\ IsSome(last_valid_job) /\ last_valid_job = Some(op.m)
    /\ IsSome(last_prev_hash) /\ IsSome(last_prev_hash_)
    /\ Unwrap(last_prev_hash).prev_hash = 2
    /\ Unwrap(last_prev_hash_) = u256_to_block_hash(2)

\* C33: in every reachable state every job held in future_jobs is marked
\* future and the job held in last_valid_job, if any, is marked non-future;
\* consequently every NewExtendedMiningJob in a new_extended_channel batch is
\* marked future.
C33_FutureFlagsMatchSlots ==
    /\ \A i \in 1..Len(future_jobs) : is_future(future_jobs[i])
    /\ IsSome(last_valid_job) => ~is_future(Unwrap(last_valid_job))
    /\ OpenedChannel =>
          \A i \in 1..Len(ret.val) :
              ret.val[i].type = "NewExtendedMiningJob" => is_future(ret.val[i].job)

\* a channel was opened while a job promoted by a prev-hash was the valid job
\* and another job was waiting: the batch replays both
C33_BatchReplaysPromotedAndWaitingJob ==
    /\ OpenedChannel
    /\ IsSome(last_valid_job)
    /\ Unwrap(last_valid_job).min_ntime \in {Some(now) : now \in NowValues}
    /\ future_jobs # <<>>
    /\ Cardinality({i \in 1..Len(ret.val) : ret.val[i].type = "NewExtendedMiningJob"}) >= 2

\* C34: if new_extended_channel returns Err (the hash-rate to target conversion
\* fails), the factory state is the same as before the call: no channel id has
\* been consumed from the allocator and neither channel_to_group_id nor
\* extended_channels has a new entry.
C34_FailedOpenLeavesNoTrace ==
    [][(op'.name = "new_extended_channel" /\ ret'.res = "Err") =>
          UNCHANGED <<chanVars, jobVars, kindVars, poolVars>>
      ]_vars

\* an open request failed in the target conversion, yet the allocator has
\* handed out its id and channel_to_group_id holds it, without a channel record
C34_FailedOpenConsumedChannelId ==
    /\ op.name = "new_extended_channel"
    /\ ret.res = "Err"
    /\ ids >= 1
    /\ ids \in DOMAIN channel_to_group_id
    /\ ids \notin DOMAIN extended_channels

\* C35: negotiated_jobs is changed only by on_new_set_custom_mining_job, which
\* stores its message under the message's channel: prev-hash events, new
\* templates, channel opens and share submissions never remove or alter an
\* entry, so an extended share on a channel with a negotiated job is validated
\* against the most recently registered custom job, also after a new prev-hash.
C35_NegotiatedJobsOnlyByCustomJob ==
    /\ [][IF op'.name = "on_new_set_custom_mining_job"
          THEN /\ negotiated_jobs'[op'.m.channel_id] = op'.m
               /\ \A c \in DOMAIN negotiated_jobs \ {op'.m.channel_id} :
                      /\ c \in DOMAIN negotiated_jobs'
                      /\ negotiated_jobs'[c] = negotiated_jobs[c]
          ELSE UNCHANGED negotiated_jobs
        ]_vars
    /\ []((ShareOnNegotiatedJob /\ op.m.channel_id \in DOMAIN extended_channels) =>
            /\ ret.res = "Ok"
            /\ ret.val.arm =
                  Classify(Unwrap(HashOnNegotiatedJob(op.m)), op.target,
                           KindUpstreamTarget,
                           U256ToTarget(extended_channels[op.m.channel_id].target)))

\* after a prev-hash from the template provider, a share on a channel whose
\* custom job was registered second was classified on that custom job
C35_ShareOnCustomJobAfterPrevHash ==
    /\ ShareOnNegotiatedJob
    /\ op.m.channel_id \in DOMAIN extended_channels
    /\ negotiated_jobs[op.m.channel_id].request_id = 22
    /\ job_ids = 2
    /\ IsSome(last_prev_hash)
    /\ Unwrap(last_prev_hash).nbits # negotiated_jobs[op.m.channel_id].nbits
    /\ ret.res = "Ok"

\* what a handler's answer says about the share: the arm and its error, or the
\* Error returned
Classification(r) ==
    IF r.res # "Ok" THEN r
    ELSE IF r.val.arm = "SendErrorDownstream" THEN [arm |-> r.val.arm, error |-> r.val.error]
    ELSE [arm |-> r.val.arm]

\* C36: on a pool, the result of on_submit_shares_extended does not depend on
\* the share's job_id: two shares that differ only in job_id, submitted in the
\* same state, get the same classification.
C36_PoolIgnoresShareJobId ==
    factory = "PoolChannelFactory" =>
        \A c \in ChannelIdInputs, n \in Nonces, a \in CreatorAnswers :
            Classification(PoolSubmitExtendedResult(
                               ExtendedShare(c, 1, n), a.target, a.template_id))
              = Classification(PoolSubmitExtendedResult(
                                   ExtendedShare(c, 2, n), a.target, a.template_id))

\* a pool classified, on its valid job, a share that names another job id
C36_ShareWithOtherJobIdClassified ==
    /\ factory = "PoolChannelFactory"
    /\ op.name = "on_submit_shares_extended"
    /\ ~ShareOnNegotiatedJob
    /\ IsSome(last_valid_job)
    /\ Unwrap(last_valid_job).job_id # op.m.job_id
    /\ ClassifiedByTarget

\* C37: no share submission through a pool or proxy factory reaches the
\* unimplemented Downstream arm of OnNewShare::into_extended: a share that meets
\* the downstream target only is answered with ShareMeetDownstreamTarget as it is.
C37_DownstreamArmNeverConverted ==
    op.name \in {"on_submit_shares_extended", "on_submit_shares_standard"} =>
        /\ ret # [res |-> "Panic", at |-> "todo"]
        /\ ret.res = "Panic" => (ret.at = "unimplemented" /\ op.name = "on_submit_shares_standard")

\* a factory with an upstream answered a share that meets the downstream target only
C37_ProxyShareMeetsDownstreamOnly ==
    /\ op.name = "on_submit_shares_extended"
    /\ kind # "Pool"
    /\ ret = [res |-> "Ok", val |-> [arm |-> "ShareMeetDownstreamTarget"]]
====
